---------------------------- MODULE Spec2Model ----------------------------
(***************************************************************************)
(* The Wayland window of gpui (crates/gpui/src/platform/linux/wayland/     *)
(* window.rs) as a state machine: WaylandWindowState is the state, every   *)
(* event handler of WaylandWindowStatePtr and every PlatformWindow         *)
(* operation of WaylandWindow is one action.                               *)
(*                                                                         *)
(* Conventions.  Option<T> is a sequence of length at most one: None is    *)
(* <<>> and Some(x) is <<x>>.  Pixels are integers.  scale is kept in      *)
(* 120ths (the unit of wp_fractional_scale_v1), so the f32 1.0 is 120.     *)
(* The variable call records the operation that ended last: its name and   *)
(* arguments, the protocol requests, renderer calls and callback           *)
(* invocations it made, in order, and the value it returned.               *)
(*                                                                         *)
(* A handler that runs a registered callback takes two steps: the first    *)
(* goes up to the call of the callback and leaves the handler waiting in   *)
(* running, with the RefCell of the callbacks borrowed; the second,        *)
(* CallbackReturn, goes on from there on the state as it is then.  The     *)
(* operations taken in between are handled inside the callback.  An        *)
(* operation that borrows the callbacks inside a callback panics.          *)
(***************************************************************************)
EXTENDS Integers, Sequences, FiniteSets, TLC

VARIABLES
    surface,                      \* Surface: [kind, decoration]
    globals,                      \* Globals: which optional managers exist
    wl_surface_version,           \* wl_surface.version()
    acknowledged_first_configure,
    bounds,
    window_bounds,
    scale,
    fullscreen,
    maximized,
    tiling,
    in_progress_configure,
    in_progress_window_controls,
    window_controls,
    default_window_controls,      \* what WindowControls::default() returns
    decorations,
    background_appearance,
    inset,
    outputs,
    display,
    blur,
    viewport,
    renderer,                     \* BladeRenderer: [alive, transparent]
    opaque_region,                \* the opaque region last set on wl_surface
    callbacks,                    \* Callbacks: which handlers are registered
    phase,                        \* "live", "dropped", "closed", "panicked"
    teardown,                     \* the steps of Drop and of its deferred task
    active,
    hovered,
    app_id,
    running,                      \* the handler that waits for a callback it ran
                                  \* to return, None when no callback is running
    input_handler,                \* Option<PlatformInputHandler>, a handler by its name
    appearance,                   \* WindowAppearance
    detached,                     \* the handlers taken out of the state by the
                                  \* operations that are running, innermost last
    call                          \* the operation handled last

vars == << surface, globals, wl_surface_version, acknowledged_first_configure,
           bounds, window_bounds, scale, fullscreen, maximized, tiling,
           in_progress_configure, in_progress_window_controls, window_controls,
           default_window_controls, decorations, background_appearance, inset, outputs, display, blur,
           viewport, renderer, opaque_region, callbacks, phase, teardown,
           active, hovered, app_id, running, input_handler, detached,
           appearance, call >>

----------------------------------------------------------------------------
(* Bounds of the model *)

MaxDim == 1          \* suggested sizes are multiples of DimStep up to this
MaxInset == 1        \* client insets 0..MaxInset
MaxSerial == 1       \* configure serials 1..MaxSerial
MaxScale == 2        \* output scales 1..MaxScale
MaxOutputs == 2      \* outputs known to the client

----------------------------------------------------------------------------
(* Option<T> *)

None == << >>
Some(x) == << x >>
IsSome(o) == o # << >>
Unwrap(o) == o[1]

(* Size<Pixels>, Point<Pixels>, Bounds<Pixels>, Tiling *)

Size(w, h) == [width |-> w, height |-> h]
Point(x, y) == [x |-> x, y |-> y]
Bounds(o, s) == [origin |-> o, size |-> s]

TilingDefault == [top |-> FALSE, left |-> FALSE, right |-> FALSE, bottom |-> FALSE]
TilingTiled == [top |-> TRUE, left |-> TRUE, right |-> TRUE, bottom |-> TRUE]

\* WindowControls::default() is defined outside this file.  It is one value,
\* the same at every call, and may be any value of WindowControls.
WindowControlsDefaults ==
    [fullscreen : BOOLEAN, maximize : BOOLEAN, minimize : BOOLEAN,
     window_menu : BOOLEAN]

(* xdg_toplevel::State and the EVT_PREFERRED_BUFFER_SCALE_SINCE version *)
StateMaximized == 1
StateFullscreen == 2
StateActivated == 4
StateTiledLeft == 5
StateTiledRight == 6
StateTiledTop == 7
StateTiledBottom == 8
EVT_PREFERRED_BUFFER_SCALE_SINCE == 6

CallbacksDefault ==
    [request_frame |-> FALSE, input |-> FALSE, active_status_change |-> FALSE,
     hover_status_change |-> FALSE, resize |-> FALSE, moved |-> FALSE,
     should_close |-> FALSE, close |-> FALSE, appearance_changed |-> FALSE]

\* call: before holds the fields of the state, as they were when the
\* operation began, that it consumes or overwrites
Call(op, args, before, effects, ret) ==
    [op |-> op, args |-> args, before |-> before, effects |-> effects, ret |-> ret,
     steps |-> << >>, nested |-> 0]

\* steps of a call: its effects together with the places where the operation
\* borrows the RefCell of the state (state.borrow_mut(), state.borrow()) and
\* where the borrow ends (drop(state), or the end of its scope or statement)
BorrowMut == <<"state.borrow_mut">>
BorrowShared == <<"state.borrow">>
DropBorrow == <<"state.drop">>
BorrowMarkers == {"state.borrow_mut", "state.borrow", "state.drop"}

Traced(c, steps) == [c EXCEPT !.steps = steps]

\* the steps of an operation that never borrows the state
NoBorrow(c) == [c EXCEPT !.steps = c.effects]

\* the steps of an operation that borrows the state for its first statement
\* only, before everything it calls
AfterBorrow(c) == [c EXCEPT !.steps = << BorrowMut, DropBorrow >> \o c.effects]
Named(seq, name) == SelectSeq(seq, LAMBDA e : e[1] = name)
Requests(steps) == SelectSeq(steps, LAMBDA e : e[1] \notin BorrowMarkers)

\* the part of a sequence of effects or steps before its first entry named
\* `name`, the whole of it when it has none, and the part after that entry
Position(seq, name) ==
    IF \E i \in DOMAIN seq : seq[i][1] = name
    THEN CHOOSE i \in DOMAIN seq :
            seq[i][1] = name /\ \A j \in 1 .. i - 1 : seq[j][1] # name
    ELSE Len(seq) + 1
Before(seq, name) == SubSeq(seq, 1, Position(seq, name) - 1)
After(seq, name) == SubSeq(seq, Position(seq, name) + 1, Len(seq))

Unit == << >>

----------------------------------------------------------------------------
(* Callbacks: Rc<RefCell<Callbacks>> *)

MaxNested == 1       \* operations handled inside one run of a callback

\* the window still handles operations: it is in the registry of the client
\* and no operation has panicked
Alive == phase \notin {"closed", "panicked"}

\* Every callback is run while callbacks.borrow_mut() is held by the
\* operation that runs it, so the RefCell of Callbacks is mutably borrowed
\* exactly while an operation waits for a callback to return
callbacks_borrowed == running # None

\* the frame of an operation that waits for the callback it runs: rec is its
\* call so far, next names the place where it goes on, tail and tail_steps
\* are what it still sends there, arg is what it holds in its locals, and
\* depth counts the operations of input handlers that were running when it
\* began
Suspended(rec, next, tail, tail_steps, arg) ==
    [rec |-> rec, next |-> next, tail |-> tail, tail_steps |-> tail_steps,
     arg |-> arg, depth |-> Len(detached)]

\* the call c with the effects and steps it goes on to make
Extended(c, effects, steps) ==
    [c EXCEPT !.effects = @ \o effects, !.steps = @ \o steps]

\* the call of an operation that began and ended inside a callback, added to
\* the call of the operation that runs the callback
Nest(rec, c) ==
    [rec EXCEPT !.effects = @ \o c.effects,
                !.steps = @ \o (IF c.steps = << >> THEN c.effects ELSE c.steps),
                !.nested = @ + 1]

\* an operation ends with the call c.  Inside a callback, what it sent is
\* also part of what was sent during the operation that runs the callback.
Finish(c) ==
    IF running = None
    THEN /\ call' = c
         /\ running' = running
    ELSE /\ Unwrap(running).rec.nested < MaxNested
         /\ call' = c
         /\ running' = Some([Unwrap(running) EXCEPT !.rec = Nest(@, c)])

\* An operation that waits for the input handler goes on with the call c: it
\* asks the handler for what comes next, or stores it again and returns.
\* Inside a callback, what it sends is also part of what was sent during
\* the operation that runs the callback; the operation itself was counted
\* there when it began.
Continue(c) ==
    IF running = None
    THEN /\ call' = c
         /\ running' = running
    ELSE /\ call' = c
         /\ running' = Some([Unwrap(running) EXCEPT
                !.rec = [Nest(@, c) EXCEPT !.nested = @ - 1]])

\* the call of an operation that panicked in callbacks.borrow_mut()
\* ("already borrowed: BorrowMutError"): c is the call up to that point
Panicked(c) ==
    [c EXCEPT !.op = "panic", !.args = <<c.op, c.args>>, !.ret = "BorrowMutError"]

\* what call holds while the callback of `kind` runs with the arguments args
Running(kind, args) ==
    Call("callback", <<kind>> \o args, Unit, << >>, Unit)

\* The operation whose call so far is c reaches callbacks.borrow_mut() and
\* runs the handler of `kind`, if one is registered, with the arguments
\* args; after that it sends tail and is over.  The borrow panics when a
\* callback is running; a handler that is run leaves the operation waiting.
AtCallback(c, kind, args, tail, tail_steps) ==
    IF callbacks_borrowed
    THEN /\ phase' = "panicked"
         /\ call' = Panicked(c)
         /\ running' = running
    ELSE IF callbacks[kind]
    THEN /\ phase' = phase
         /\ call' = Running(kind, args)
         /\ running' = Some(Suspended(
                Extended(c, << <<"callback." \o kind>> \o args >>,
                         << <<"callback." \o kind>> \o args >>),
                "end", tail, tail_steps, Unit))
    ELSE /\ phase' = phase
         /\ call' = Extended(c, tail, tail_steps)
         /\ running' = running

\* no callback of the window is running: the application and the client are
\* not inside one of its handlers
Idle == running = None

\* an operation that reaches no callback ends with the call c
NoCallback(c) ==
    /\ phase' = phase
    /\ Finish(c)

----------------------------------------------------------------------------
(* Geometry *)

\* faulty variant: the inset is added on every edge, tiled or not
compute_outer_size_IgnoresTiling(inset_, new_size, tiling_) ==
    IF inset_ = None THEN new_size
    ELSE IF new_size = None THEN None
    ELSE Some(Size(Unwrap(new_size).width + 2 * Unwrap(inset_),
                   Unwrap(new_size).height + 2 * Unwrap(inset_)))

\* compute_outer_size: add the inset back on every edge that is not tiled
compute_outer_size(inset_, new_size, tiling_) ==
    IF inset_ = None THEN new_size
    ELSE IF new_size = None THEN None
    ELSE LET i == Unwrap(inset_)
             s == Unwrap(new_size)
         IN Some(Size(s.width + (IF ~tiling_.left THEN i ELSE 0)
                              + (IF ~tiling_.right THEN i ELSE 0),
                      s.height + (IF ~tiling_.top THEN i ELSE 0)
                               + (IF ~tiling_.bottom THEN i ELSE 0)))

\* inset_by_tiling: shrink the bounds on every edge that is not tiled
inset_by_tiling(bounds_, inset_, tiling_) ==
    Bounds(Point(bounds_.origin.x + (IF ~tiling_.left THEN inset_ ELSE 0),
                 bounds_.origin.y + (IF ~tiling_.top THEN inset_ ELSE 0)),
           Size(bounds_.size.width - (IF ~tiling_.left THEN inset_ ELSE 0)
                                   - (IF ~tiling_.right THEN inset_ ELSE 0),
                bounds_.size.height - (IF ~tiling_.top THEN inset_ ELSE 0)
                                    - (IF ~tiling_.bottom THEN inset_ ELSE 0)))

\* faulty variant: the declared size is not clamped
ClampSize_Identity(v) == v

\* the clamp of the declared geometry: |v| if v <= 0 { 1 } else { v }
ClampSize(v) == IF v <= 0 THEN 1 ELSE v

\* the window geometry handle_xdg_surface_event declares, from the bounds,
\* the inset and the tiling at that point
WindowGeometry(bounds_, inset_, tiling_) ==
    LET g == inset_by_tiling(Bounds(Point(0, 0), bounds_.size),
                             IF IsSome(inset_) THEN Unwrap(inset_) ELSE 0,
                             tiling_)
    IN Bounds(g.origin, Size(ClampSize(g.size.width), ClampSize(g.size.height)))

\* Bounds::to_device_pixels: logical pixels times the scale (in 120ths),
\* rounded up
ToDevicePixels(v, scale_) == (v * scale_ + 119) \div 120

----------------------------------------------------------------------------
(* WaylandWindowState *)

\* faulty variant: only the decorations decide the transparency
is_transparent_DecorationsOnly(decorations_, background_) ==
    decorations_ = "Client"

\* is_transparent, of a state with these decorations and this background
is_transparent(decorations_, background_) ==
    decorations_ = "Client" \/ background_ # "Opaque"

\* The loop of primary_output_scale over the outputs in the order ord (a
\* HashMap iterates in an unspecified order): acc holds the local scale and
\* current_output
RECURSIVE PrimaryOutputLoop(_, _, _)
PrimaryOutputLoop(outs, ord, acc) ==
    IF ord = << >> THEN acc
    ELSE LET id == Head(ord)
             cur == acc.display
             next == IF IsSome(cur)
                     THEN IF outs[id] > Unwrap(cur).scale
                          THEN Some([id |-> id, scale |-> outs[id]])
                          ELSE cur
                     ELSE Some([id |-> id, scale |-> outs[id]])
             larger == IF outs[id] > acc.scale THEN outs[id] ELSE acc.scale
         IN PrimaryOutputLoop(outs, Tail(ord), [scale |-> larger, display |-> next])

\* the iteration orders of a map: the sequences that list its keys once
Orders(outs) ==
    {ord \in [1 .. Cardinality(DOMAIN outs) -> DOMAIN outs] :
        \A i, j \in DOMAIN ord : i # j => ord[i] # ord[j]}

\* faulty variant: the scale of the display chosen is returned
primary_output_scale_FromDisplay(outs, ord, cur) ==
    LET r == PrimaryOutputLoop(outs, ord, [scale |-> 1, display |-> cur])
    IN [scale |-> IF IsSome(r.display) THEN Unwrap(r.display).scale ELSE 1,
        display |-> r.display]

\* primary_output_scale: the returned scale and the display it leaves,
\* starting from scale 1 and the display taken from the state
primary_output_scale(outs, ord, cur) ==
    PrimaryOutputLoop(outs, ord, [scale |-> 1, display |-> cur])

----------------------------------------------------------------------------
(* set_size_and_scale: the new bounds and scale, and what it calls *)

SizeAndScaleUnchanged(size, new_scale) ==
    /\ (size = None \/ Unwrap(size) = bounds.size)
    /\ (new_scale = None \/ Unwrap(new_scale) = scale)

\* faulty variant: nothing is done as soon as one of the two values is absent
\* or equal to the current one
set_size_and_scale_EitherEqual(size, new_scale) ==
    IF \/ (size = None \/ Unwrap(size) = bounds.size)
       \/ (new_scale = None \/ Unwrap(new_scale) = scale)
    THEN [bounds |-> bounds, scale |-> scale, effects |-> << >>]
    ELSE LET b == [bounds EXCEPT !.size = Unwrap(size)]
             s == Unwrap(new_scale)
         IN [bounds |-> b, scale |-> s,
             effects |->
                << <<"renderer.update_drawable_size",
                     ToDevicePixels(b.size.width, s),
                     ToDevicePixels(b.size.height, s)>> >>
                \o (IF callbacks.resize
                    THEN << <<"callback.resize", b.size, s>> >> ELSE << >>)
                \o (IF viewport
                    THEN << <<"viewport.set_destination",
                              b.size.width, b.size.height>> >> ELSE << >>)]

set_size_and_scale(size, new_scale) ==
    IF SizeAndScaleUnchanged(size, new_scale)
    THEN [bounds |-> bounds, scale |-> scale, effects |-> << >>]
    ELSE LET b == IF IsSome(size) THEN [bounds EXCEPT !.size = Unwrap(size)]
                  ELSE bounds
             s == IF IsSome(new_scale) THEN Unwrap(new_scale) ELSE scale
         IN [bounds |-> b, scale |-> s,
             effects |->
                << <<"renderer.update_drawable_size",
                     ToDevicePixels(b.size.width, s),
                     ToDevicePixels(b.size.height, s)>> >>
                \o (IF callbacks.resize
                    THEN << <<"callback.resize", b.size, s>> >> ELSE << >>)
                \o (IF viewport
                    THEN << <<"viewport.set_destination",
                              b.size.width, b.size.height>> >> ELSE << >>)]

\* faulty variant: the size is stored without the renderer, the resize
\* callback and the viewport being told
resize_Silent(size) ==
    [bounds |-> [bounds EXCEPT !.size = size], scale |-> scale, effects |-> << >>]

resize(size) == set_size_and_scale(Some(size), None)
rescale(new_scale) == set_size_and_scale(None, Some(new_scale))

\* the steps of set_size_and_scale that changes something, up to the borrow
\* of the callbacks: the first block, in which the state is borrowed mutably
resized_steps(e) ==
    << BorrowMut >> \o Named(e, "renderer.update_drawable_size") \o << DropBorrow >>

\* the steps of set_size_and_scale after the resize handler: the viewport is
\* read under a shared borrow
viewport_steps(e) ==
    << BorrowShared >> \o Named(e, "viewport.set_destination") \o << DropBorrow >>

\* the steps of set_size_and_scale: the state is borrowed mutably in the first
\* block, which the early return leaves too, the resize handler runs after
\* the block, and the viewport is read under a shared borrow
set_size_and_scale_steps(size, new_scale) ==
    LET e == set_size_and_scale(size, new_scale).effects
    IN IF SizeAndScaleUnchanged(size, new_scale)
       THEN << BorrowMut, DropBorrow >>
       ELSE resized_steps(e) \o Named(e, "callback.resize") \o viewport_steps(e)

resize_steps(size) == set_size_and_scale_steps(Some(size), None)
rescale_steps(new_scale) == set_size_and_scale_steps(None, Some(new_scale))

\* set_size_and_scale as the last thing done by the operation whose call so
\* far is c; rs is what set_size_and_scale leaves and sends.  It returns
\* early, before it borrows the callbacks, when nothing changes.
SizeAndScale(c, rs) ==
    IF rs.effects = << >>
    THEN NoCallback(Extended(c, << >>, << BorrowMut, DropBorrow >>))
    ELSE AtCallback(Extended(c, Named(rs.effects, "renderer.update_drawable_size"),
                             resized_steps(rs.effects)),
                    "resize", <<rs.bounds.size, rs.scale>>,
                    Named(rs.effects, "viewport.set_destination"),
                    viewport_steps(rs.effects))

\* frame: request a frame callback, then run the registered handler
frame ==
    << <<"wl_surface.frame">> >>
    \o (IF callbacks.request_frame THEN << <<"callback.request_frame">> >> ELSE << >>)

\* faulty variant: the borrow of the state lasts until frame returns
frame_steps_BorrowKept ==
    << BorrowMut >> \o frame \o << DropBorrow >>

\* the steps of frame: the state is borrowed for the request and the borrow
\* is dropped before the handler runs
frame_steps ==
    << BorrowMut >> \o Named(frame, "wl_surface.frame") \o << DropBorrow >>
    \o Named(frame, "callback.request_frame")

\* frame as the last thing done by the operation whose call so far is c:
\* the state is borrowed for the request, then the callbacks are borrowed
\* and the request_frame handler runs while `cb` is held
FrameFrom(c) ==
    AtCallback(Extended(c, Before(frame, "callback.request_frame"),
                        Before(frame_steps, "callback.request_frame")),
               "request_frame", << >>,
               After(frame, "callback.request_frame"),
               After(frame_steps, "callback.request_frame"))

----------------------------------------------------------------------------
(* Inputs *)

DimStep == 4

\* (width, height) of a toplevel configure: 0 stands for "no size suggested"
SuggestedSizes ==
    {<<0, 0>>, <<0, DimStep + 1>>, <<DimStep, 0>>}
    \cup {<<DimStep * k, DimStep * k + 1>> : k \in 1 .. MaxDim}

\* the states array of a toplevel configure, as the set of its entries
StateArrays ==
    { {},
      {StateMaximized},
      {StateFullscreen, StateActivated},
      {StateMaximized, StateFullscreen},
      {StateMaximized, StateTiledTop, StateTiledLeft},
      {StateTiledLeft},
      {StateTiledTop, StateTiledBottom},
      {StateTiledRight, StateTiledBottom, StateActivated},
      {StateTiledLeft, StateTiledRight, StateTiledTop, StateTiledBottom} }

Serials == 1 .. MaxSerial
Insets == 0 .. MaxInset

\* WindowParams.bounds of the windows the model opens, unless said otherwise
InitialBounds == Bounds(Point(2, 1), Size(6, 5))

\* LayerShellSettings: anchor holds the bits of Anchor (TOP 1, BOTTOM 2,
\* LEFT 4, RIGHT 8), margin the four values of the tuple
LayerShellSettings(layer, anchor, exclusive_zone, keyboard_interactivity, namespace, pointer_interactivity, margin) ==
    [layer |-> layer, anchor |-> anchor, exclusive_zone |-> exclusive_zone,
     keyboard_interactivity |-> keyboard_interactivity, namespace |-> namespace,
     pointer_interactivity |-> pointer_interactivity, margin |-> margin]

\* WindowParams, as far as WaylandWindow::new reads it: kind is "Normal",
\* "LayerShell" or "PopUp", and layer_shell_settings holds the settings that
\* WindowKind::LayerShell carries
WindowParams(kind, layer_shell_settings, bounds_, window_min_size) ==
    [kind |-> kind, layer_shell_settings |-> layer_shell_settings,
     bounds |-> bounds_, window_min_size |-> window_min_size]

\* a toplevel window and a layer surface without optional settings
NormalParams == WindowParams("Normal", None, InitialBounds, None)
LayerShellParams ==
    WindowParams("LayerShell",
                 Some(LayerShellSettings("Overlay", 12, None, "Exclusive", "panel",
                                         TRUE, None)),
                 InitialBounds, None)

\* the window of examples/simple_bar.rs: a bar on the Top layer anchored to
\* the top, left and right edges, with an exclusive zone of its height
SimpleBarParams ==
    WindowParams("LayerShell",
                 Some(LayerShellSettings("Top", 13, Some(50), "None", "simple bar",
                                         TRUE, None)),
                 Bounds(Point(0, 0), Size(1440, 50)), None)

\* the parameters of a window whose surface is of the kind given
ParamsOf(surface_kind) ==
    IF surface_kind = "Xdg" THEN NormalParams ELSE LayerShellParams

----------------------------------------------------------------------------
(* Groups of variables for UNCHANGED *)

configVars == << surface, globals, wl_surface_version, default_window_controls >>
geometryVars == << bounds, window_bounds, scale >>
latchedVars == << fullscreen, maximized, tiling >>
pendingVars == << in_progress_configure, in_progress_window_controls >>
appearanceVars == << decorations, background_appearance, blur, renderer, opaque_region >>
outputVars == << outputs, display >>
lifeVars == << phase, teardown >>
inputVars == << input_handler, detached, appearance >>
facadeVars == << active, hovered, app_id, inputVars, appearance >>

----------------------------------------------------------------------------
(* WaylandWindowState::new and WaylandWindow::new *)

\* Anchor::from_bits_truncate: the bits that are no anchor are dropped
from_bits_truncate(bits) == bits % 16

\* `v.0 as u32` of a whole number of pixels: a negative value becomes 0
AsU32(v) == IF v < 0 THEN 0 ELSE v

\* the variant of Surface that new builds for the kind of window asked for
SurfaceKind(params) ==
    CASE params.kind = "Normal" -> "Xdg"
      [] params.kind = "LayerShell" -> "Layer"
      [] params.kind = "PopUp" -> "PopUp"

\* what new sends for a toplevel: the xdg surface, its toplevel, the minimum
\* size when the parameters have one, and the decoration object when the
\* compositor has a decoration manager
NormalRequests(params, has_decoration) ==
    << <<"wm_base.get_xdg_surface">>, <<"xdg_surface.get_toplevel">> >>
    \o (IF IsSome(params.window_min_size)
        THEN << <<"toplevel.set_min_size",
                  Unwrap(params.window_min_size).width,
                  Unwrap(params.window_min_size).height>> >>
        ELSE << >>)
    \o (IF has_decoration
        THEN << <<"decoration_manager.get_toplevel_decoration">> >>
        ELSE << >>)

\* what new sends for a layer surface: the surface on its layer, anchor, size
\* and keyboard interactivity, an empty input region when the surface takes
\* no pointer input, and the margin and the exclusive zone that are set
LayerShellRequests(params) ==
    LET settings == Unwrap(params.layer_shell_settings)
    IN << <<"layer_shell.get_layer_surface", settings.layer, settings.namespace>>,
          <<"layer_surface.set_anchor", from_bits_truncate(settings.anchor)>>,
          <<"layer_surface.set_size", AsU32(params.bounds.size.width),
            AsU32(params.bounds.size.height)>>,
          <<"layer_surface.set_keyboard_interactivity",
            settings.keyboard_interactivity>> >>
       \o (IF ~settings.pointer_interactivity
           THEN << <<"compositor.create_region">>,
                   <<"wl_surface.set_input_region", "region">>,
                   <<"region.destroy">> >>
           ELSE << >>)
       \o (IF IsSome(settings.margin)
           THEN << <<"layer_surface.set_margin",
                     Unwrap(settings.margin)[1], Unwrap(settings.margin)[2],
                     Unwrap(settings.margin)[3], Unwrap(settings.margin)[4]>> >>
           ELSE << >>)
       \o (IF IsSome(settings.exclusive_zone)
           THEN << <<"layer_surface.set_exclusive_zone",
                     Unwrap(settings.exclusive_zone)>> >>
           ELSE << >>)

\* the requests WaylandWindow::new sends before it builds the state, in
\* order: each creates a protocol object or sets up the shell surface.  For
\* a popup new stops at unimplemented!() once the wl_surface is created.
CreationRequests(params, has_decoration, has_fractional, has_viewport) ==
    << <<"compositor.create_surface">> >>
    \o (CASE params.kind = "Normal" ->
                NormalRequests(params, has_decoration)
               \o (IF has_fractional
                   THEN << <<"fractional_scale_manager.get_fractional_scale">> >>
                   ELSE << >>)
               \o (IF has_viewport THEN << <<"viewporter.get_viewport">> >> ELSE << >>)
          [] params.kind = "LayerShell" ->
                LayerShellRequests(params)
               \o (IF has_fractional
                   THEN << <<"fractional_scale_manager.get_fractional_scale">> >>
                   ELSE << >>)
               \o (IF has_viewport THEN << <<"viewporter.get_viewport">> >> ELSE << >>)
          [] params.kind = "PopUp" -> << >>)

\* WaylandWindow::new: has_decoration, has_fractional, has_viewport and
\* has_blur tell which optional globals the compositor has, and ok whether
\* BladeRenderer::new succeeds.  When it fails, WaylandWindowState::new
\* returns the error through `?`, no WaylandWindow is built (phase "failed")
\* and new returns the error; for a popup new panics (phase "panicked").  The
\* fields then only hold what the state would have been built from.  The
\* window is created without any handler: callbacks is Callbacks::default().
NewWindow(params, has_decoration, has_fractional, has_viewport, has_blur, version, ok) ==
    /\ surface = [kind |-> SurfaceKind(params),
                  decoration |-> params.kind = "Normal" /\ has_decoration]
    /\ globals = [fractional_scale_manager |-> has_fractional,
                  blur_manager |-> has_blur]
    /\ wl_surface_version = version
    /\ acknowledged_first_configure = FALSE
    /\ bounds = params.bounds
    /\ window_bounds = params.bounds
    /\ scale = 120
    /\ fullscreen = FALSE
    /\ maximized = FALSE
    /\ tiling = TilingDefault
    /\ in_progress_configure = None
    /\ in_progress_window_controls = None
    /\ default_window_controls \in WindowControlsDefaults
    /\ window_controls = default_window_controls
    /\ decorations = "Client"
    /\ background_appearance = "Opaque"
    /\ inset = None
    /\ outputs = << >>
    /\ display = None
    /\ blur = FALSE
    /\ viewport = (params.kind # "PopUp" /\ has_viewport)
    /\ renderer = [alive |-> params.kind # "PopUp" /\ ok, transparent |-> TRUE]
    /\ opaque_region = "unset"
    /\ callbacks = CallbacksDefault
    /\ phase = (IF params.kind = "PopUp" THEN "panicked"
                ELSE IF ok THEN "live" ELSE "failed")
    /\ teardown = << >>
    /\ active = FALSE
    /\ hovered = FALSE
    /\ app_id = None
    /\ running = None
    /\ input_handler = None
    /\ detached = << >>
    /\ appearance = "Light"
    /\ call = IF params.kind = "PopUp"
              THEN Call("panic", <<"new", <<params>>>>, Unit,
                        CreationRequests(params, has_decoration, has_fractional,
                                         has_viewport),
                        "unimplemented")
              ELSE Call("new", <<params>>, Unit,
                        CreationRequests(params, has_decoration, has_fractional,
                                         has_viewport)
                        \o (IF ok THEN << <<"wl_surface.commit">> >> ELSE << >>),
                        IF ok THEN "Ok" ELSE "Err")

\* the state of a window that was created.  The specifications that start
\* here are not about the value of the window controls: they take the
\* default that has every control set.
InitState(params, has_decoration, has_fractional, has_viewport, has_blur, version) ==
    /\ NewWindow(params, has_decoration, has_fractional, has_viewport, has_blur, version,
                 TRUE)
    /\ \A control \in DOMAIN default_window_controls : default_window_controls[control]

----------------------------------------------------------------------------
(* handle_toplevel_event, Configure *)

\* the size of a toplevel configure: None when width or height is zero
SuggestedSize(width, height) ==
    IF width = 0 \/ height = 0 THEN None ELSE Some(Size(width, height))

\* faulty variant: the reported edges are stashed as they are
ConfigureTiling_AsReported(fullscreen_, maximized_, reported) == reported

\* the tiling stashed with a configure: fully tiled when fullscreen or
\* maximized, the reported edges otherwise
ConfigureTiling(fullscreen_, maximized_, reported) ==
    IF fullscreen_ \/ maximized_ THEN TilingTiled ELSE reported

\* the InProgressConfigure a toplevel configure stashes
DecodeConfigure(width, height, states) ==
    LET fs == StateFullscreen \in states
        mx == StateMaximized \in states
        reported == [top |-> StateTiledTop \in states,
                     left |-> StateTiledLeft \in states,
                     right |-> StateTiledRight \in states,
                     bottom |-> StateTiledBottom \in states]
    IN [size |-> SuggestedSize(width, height),
        fullscreen |-> fs,
        maximized |-> mx,
        tiling |-> ConfigureTiling(fs, mx, reported)]

\* faulty variant: a payload that is pending is kept and the new one dropped
Stash_KeepFirst(pending, payload) == IF IsSome(pending) THEN pending ELSE Some(payload)

\* state.in_progress_configure = Some(..): the payload replaces what is pending
Stash(pending, payload) == Some(payload)

\* faulty variant: the flags of the configure are latched at once
ToplevelConfigure_Immediate(width, height, states) ==
    /\ Alive
    /\ in_progress_configure' = Some(DecodeConfigure(width, height, states))
    /\ fullscreen' = DecodeConfigure(width, height, states).fullscreen
    /\ maximized' = DecodeConfigure(width, height, states).maximized
    /\ tiling' = DecodeConfigure(width, height, states).tiling
    /\ Finish(Call("handle_toplevel_event", <<"Configure", width, height, states>>,
                     Unit, << >>, FALSE))
    /\ UNCHANGED << configVars, facadeVars, acknowledged_first_configure, geometryVars,
                    in_progress_window_controls, window_controls,
                    appearanceVars, inset, outputVars, viewport, callbacks,
                    lifeVars >>

ToplevelConfigure(width, height, states) ==
    /\ Alive
    /\ in_progress_configure' =
          Stash(in_progress_configure, DecodeConfigure(width, height, states))
    /\ Finish(Call("handle_toplevel_event", <<"Configure", width, height, states>>,
                     Unit, << >>, FALSE))
    /\ UNCHANGED << configVars, facadeVars, acknowledged_first_configure, geometryVars,
                    latchedVars, in_progress_window_controls, window_controls,
                    appearanceVars, inset, outputVars, viewport, callbacks,
                    lifeVars >>

----------------------------------------------------------------------------
(* handle_toplevel_event, WmCapabilities *)

\* the capabilities of a WmCapabilities event, as the set of its entries
CapabilitySets ==
    { {}, {"Maximize", "Minimize"}, {"WindowMenu", "Maximize", "Minimize", "Fullscreen"} }

\* the WindowControls decoded from the capabilities: the default with every
\* advertised control set
DecodeCapabilities(capabilities) ==
    [fullscreen |-> default_window_controls.fullscreen \/ "Fullscreen" \in capabilities,
     maximize |-> default_window_controls.maximize \/ "Maximize" \in capabilities,
     minimize |-> default_window_controls.minimize \/ "Minimize" \in capabilities,
     window_menu |-> default_window_controls.window_menu \/ "WindowMenu" \in capabilities]

\* faulty variant: the decoded controls are applied at once, and stashed
ToplevelWmCapabilities_Immediate(capabilities) ==
    /\ Alive
    /\ window_controls' = DecodeCapabilities(capabilities)
    /\ in_progress_window_controls' = Some(DecodeCapabilities(capabilities))
    /\ Finish(Call("handle_toplevel_event", <<"WmCapabilities", capabilities>>,
                     Unit, << >>, FALSE))
    /\ UNCHANGED << configVars, facadeVars, acknowledged_first_configure, geometryVars,
                    latchedVars, in_progress_configure, appearanceVars, inset,
                    outputVars, viewport, callbacks, lifeVars >>

ToplevelWmCapabilities(capabilities) ==
    /\ Alive
    /\ in_progress_window_controls' = Some(DecodeCapabilities(capabilities))
    /\ Finish(Call("handle_toplevel_event", <<"WmCapabilities", capabilities>>,
                     Unit, << >>, FALSE))
    /\ UNCHANGED << configVars, facadeVars, acknowledged_first_configure, geometryVars,
                    latchedVars, in_progress_configure, window_controls,
                    appearanceVars, inset, outputVars, viewport, callbacks,
                    lifeVars >>

----------------------------------------------------------------------------
(* handle_xdg_surface_event, Configure *)

\* faulty variant: got_unmaximized computed after the flags were latched
got_unmaximized_AfterLatch(c) == c.maximized /\ ~c.maximized

\* got_unmaximized: the state is maximized and the payload c is not
got_unmaximized(c) == maximized /\ ~c.maximized

\* faulty variant: the suggested size is used without adding the inset back
CommittedSize_NoOuter(c) ==
    IF ~c.fullscreen /\ ~c.maximized /\ got_unmaximized(c)
    THEN Some(window_bounds.size)
    ELSE c.size

\* configure.size once the payload c is committed: for a payload that is
\* neither fullscreen nor maximized, the saved window_bounds size on an
\* un-maximize and the outer size of the suggested size otherwise
CommittedSize(c) ==
    IF ~c.fullscreen /\ ~c.maximized
    THEN IF got_unmaximized(c)
         THEN Some(window_bounds.size)
         ELSE compute_outer_size(inset, c.size, c.tiling)
    ELSE c.size

\* faulty variant: window_bounds is written for every payload that has a size
CommittedWindowBounds_Always(c) ==
    IF IsSome(CommittedSize(c))
    THEN Bounds(Point(0, 0), Unwrap(CommittedSize(c)))
    ELSE window_bounds

\* window_bounds once the payload c is committed
CommittedWindowBounds(c) ==
    IF ~c.fullscreen /\ ~c.maximized /\ IsSome(CommittedSize(c))
    THEN Bounds(Point(0, 0), Unwrap(CommittedSize(c)))
    ELSE window_bounds

\* faulty variant: every configure requests a frame
request_frame_callback_Always == TRUE

\* request_frame_callback of the configure handlers
request_frame_callback == ~acknowledged_first_configure

\* what the handler reads before it overwrites it; in_progress_configure is
\* what in_progress_configure.take() finds
XdgSurfaceBefore ==
    [fullscreen |-> fullscreen, maximized |-> maximized, tiling |-> tiling,
     bounds |-> bounds, window_bounds |-> window_bounds,
     in_progress_configure |-> in_progress_configure,
     in_progress_window_controls |-> in_progress_window_controls,
     window_controls |-> window_controls,
     acknowledged_first_configure |-> acknowledged_first_configure]

\* handle_xdg_surface_event for a Configure on a toplevel, from the place
\* `from` on.  "controls" is its beginning, "payload" is where it goes on
\* when the appearance-changed handler returns, "ack" where it goes on when
\* resize returns.  c is its call so far and pending is what
\* in_progress_configure.take() finds.  Every part reads the state as it is
\* when the part runs: a handler that ran in between may have changed it.
\* The handler stops where it borrows the callbacks while a callback is
\* running (it panics) and where it runs a registered handler (it waits).
\* Committed, Resized, Geometry and CommittedBounds are its arithmetic on
\* Pixels: the size it commits, set_size_and_scale, the geometry it declares
\* and the window_bounds it stores.
XdgConfigureIn(from, c, serial, pending, Committed(_), Resized(_), Geometry(_, _, _), CommittedBounds(_)) ==
    LET \* callbacks.borrow_mut() fails: the operation began inside a callback
        busy == from = "controls" /\ callbacks_borrowed
        \* the window controls are committed and appearance_changed is run
        at_controls == from = "controls"
        has_controls == at_controls /\ IsSome(in_progress_window_controls)
        stop1 == has_controls /\ (busy \/ callbacks.appearance_changed)
        \* the payload is committed and resize is called
        at_payload == from \in {"controls", "payload"} /\ ~stop1
        has == at_payload /\ IsSome(pending)
        cfg == Unwrap(pending)
        size == IF has THEN Committed(cfg) ELSE None
        rs == IF IsSome(size) THEN Resized(Unwrap(size))
              ELSE [bounds |-> bounds, scale |-> scale, effects |-> << >>]
        resizes == rs.effects # << >>
        stop2 == resizes /\ (busy \/ callbacks.resize)
        \* the configure is acknowledged, the geometry declared from the
        \* bounds, the inset and the tiling of that moment, and the first
        \* configure calls frame
        at_ack == ~stop1 /\ ~stop2
        tiling1 == IF has THEN cfg.tiling ELSE tiling
        geometry == Geometry(rs.bounds, inset, tiling1)
        first == request_frame_callback
        stop3 == at_ack /\ first /\ (busy \/ callbacks.request_frame)
        acked == << <<"xdg_surface.ack_configure", serial>>,
                    <<"xdg_surface.set_window_geometry",
                      geometry.origin.x, geometry.origin.y,
                      geometry.size.width, geometry.size.height>> >>
        effects ==
            (IF resizes THEN Named(rs.effects, "renderer.update_drawable_size")
             ELSE << >>)
            \o (IF resizes /\ ~stop2 THEN Named(rs.effects, "viewport.set_destination")
                ELSE << >>)
            \o (IF at_ack
                THEN acked \o (IF first THEN Before(frame, "callback.request_frame")
                               ELSE << >>)
                ELSE << >>)
        \* the borrow of the surface check is dropped; the controls are
        \* committed under a borrow dropped before the handler runs; the
        \* payload is committed under a borrow dropped before resize; the ack
        \* and the geometry are sent under a borrow dropped before frame
        steps ==
            (IF at_controls THEN << BorrowMut, DropBorrow, BorrowMut, DropBorrow >>
             ELSE << >>)
            \o (IF at_payload THEN << BorrowMut, DropBorrow >> ELSE << >>)
            \o (IF IsSome(size)
                THEN IF resizes THEN resized_steps(rs.effects)
                     ELSE << BorrowMut, DropBorrow >>
                ELSE << >>)
            \o (IF resizes /\ ~stop2 THEN viewport_steps(rs.effects) ELSE << >>)
            \o (IF at_ack
                THEN << BorrowMut >> \o acked \o << DropBorrow >>
                     \o (IF first THEN Before(frame_steps, "callback.request_frame")
                         ELSE << >>)
                ELSE << >>)
        \* the payload found by the take is part of the call from there on
        found == IF from = "payload"
                 THEN [c EXCEPT !.before.in_progress_configure = pending]
                 ELSE c
        so_far == Extended(found, effects, steps)
        kind == IF stop1 THEN "appearance_changed"
                ELSE IF stop2 THEN "resize" ELSE "request_frame"
        ran == << <<"callback." \o kind>>
                  \o (IF stop2 /\ ~stop1 THEN <<rs.bounds.size, rs.scale>> ELSE << >>) >>
    IN /\ window_controls' = IF has_controls THEN Unwrap(in_progress_window_controls)
                             ELSE window_controls
       /\ in_progress_window_controls' = IF at_controls THEN None
                                         ELSE in_progress_window_controls
       /\ in_progress_configure' = IF at_payload THEN None
                                   ELSE IF at_controls THEN pending
                                   ELSE in_progress_configure
       /\ fullscreen' = IF has THEN cfg.fullscreen ELSE fullscreen
       /\ maximized' = IF has THEN cfg.maximized ELSE maximized
       /\ tiling' = tiling1
       /\ window_bounds' = IF has THEN CommittedBounds(cfg) ELSE window_bounds
       /\ bounds' = rs.bounds
       /\ scale' = rs.scale
       /\ acknowledged_first_configure' = (at_ack \/ acknowledged_first_configure)
       /\ IF (stop1 \/ stop2 \/ stop3) /\ busy
          THEN /\ phase' = "panicked"
               /\ call' = Panicked(so_far)
               /\ running' = running
          ELSE IF stop1 \/ stop2 \/ stop3
          THEN /\ phase' = phase
               /\ call' = Running(kind, Tail(ran[1]))
               /\ running' = Some(Suspended(
                      Extended(so_far, ran, ran),
                      IF stop1 THEN "payload" ELSE IF stop2 THEN "ack" ELSE "end",
                      IF stop2 /\ ~stop1
                      THEN Named(rs.effects, "viewport.set_destination")
                      ELSE << >>,
                      IF stop2 /\ ~stop1 THEN viewport_steps(rs.effects)
                      ELSE IF stop1 THEN << >>
                      ELSE After(frame_steps, "callback.request_frame"),
                      [serial |-> serial]))
          ELSE /\ phase' = phase
               /\ IF from = "controls" THEN Finish(so_far)
                  ELSE call' = so_far /\ running' = None

\* the handler on the Pixels of the model, which are whole numbers
XdgConfigureFrom(from, c, serial, pending) ==
    XdgConfigureIn(from, c, serial, pending, CommittedSize, resize, WindowGeometry,
                   CommittedWindowBounds)

\* the handler for an xdg-surface configure that finds the payload `pending`
\* in state.in_progress_configure; op and args name the call in the record
XdgSurfaceConfigureIn(op, args, serial, pending, ConfigureFrom(_, _, _, _)) ==
    /\ Alive
    /\ IF surface.kind # "Xdg"
       THEN /\ NoCallback(Traced(Call(op, args, Unit, << <<"log.error">> >>, Unit),
                                 << BorrowMut, <<"log.error">>, DropBorrow >>))
            /\ UNCHANGED << acknowledged_first_configure, geometryVars, latchedVars,
                            pendingVars, window_controls >>
       ELSE ConfigureFrom("controls",
                Call(op, args,
                     [XdgSurfaceBefore EXCEPT !.in_progress_configure = pending],
                     << >>, Unit),
                serial, pending)
    /\ UNCHANGED << configVars, facadeVars, appearanceVars, inset, outputVars, viewport,
                    callbacks, teardown >>

XdgSurfaceConfigureWith(op, args, serial, pending) ==
    XdgSurfaceConfigureIn(op, args, serial, pending, XdgConfigureFrom)

\* faulty variant: an xdg-surface configure that finds no payload pending is
\* ignored
XdgSurfaceConfigure_SkipsEmpty(serial) ==
    IF surface.kind = "Xdg" /\ in_progress_configure = None
    THEN /\ Alive
         /\ NoCallback(NoBorrow(Call("handle_xdg_surface_event", <<serial>>,
                                     XdgSurfaceBefore, << >>, Unit)))
         /\ UNCHANGED << acknowledged_first_configure, geometryVars, latchedVars,
                         pendingVars, window_controls, configVars, facadeVars,
                         appearanceVars, inset, outputVars, viewport, callbacks,
                         teardown >>
    ELSE XdgSurfaceConfigureWith("handle_xdg_surface_event", <<serial>>, serial,
                                 in_progress_configure)

XdgSurfaceConfigure(serial) ==
    XdgSurfaceConfigureWith("handle_xdg_surface_event", <<serial>>, serial,
                            in_progress_configure)

----------------------------------------------------------------------------
(* set_client_inset and update_window *)

\* faulty variant: a non-Blurred background unsets the blur but keeps the object
update_window_KeepsBlur(decorations_, background_, blur_) ==
    LET transparent == is_transparent(decorations_, background_)
        declare == background_ = "Opaque" /\ decorations_ = "Server"
        blurred == background_ = "Blurred"
    IN [renderer |-> [renderer EXCEPT !.transparent = transparent],
        opaque_region |-> IF declare THEN "region" ELSE "null",
        blur |-> IF globals.blur_manager THEN (blurred \/ blur_) ELSE blur_,
        effects |->
            << <<"renderer.update_transparency", transparent>>,
               <<"compositor.create_region">>,
               <<"region.add">>,
               <<"wl_surface.set_opaque_region", IF declare THEN "region" ELSE "null">> >>
            \o (IF globals.blur_manager
                THEN IF blurred
                     THEN (IF ~blur_ THEN << <<"blur_manager.create">> >> ELSE << >>)
                          \o << <<"blur.commit">> >>
                     ELSE << <<"blur_manager.unset">> >>
                ELSE << >>)
            \o << <<"region.destroy">> >>]

\* the state update_window leaves and what it sends, for the decorations,
\* background appearance and blur object given
update_window(decorations_, background_, blur_) ==
    LET transparent == is_transparent(decorations_, background_)
        declare == background_ = "Opaque" /\ decorations_ = "Server"
        blurred == background_ = "Blurred"
    IN [renderer |-> [renderer EXCEPT !.transparent = transparent],
        opaque_region |-> IF declare THEN "region" ELSE "null",
        blur |-> IF globals.blur_manager THEN blurred ELSE blur_,
        effects |->
            << <<"renderer.update_transparency", transparent>>,
               <<"compositor.create_region">>,
               <<"region.add">>,
               <<"wl_surface.set_opaque_region", IF declare THEN "region" ELSE "null">> >>
            \o (IF globals.blur_manager
                THEN IF blurred
                     THEN (IF ~blur_ THEN << <<"blur_manager.create">> >> ELSE << >>)
                          \o << <<"blur.commit">> >>
                     ELSE << <<"blur_manager.unset">> >>
                          \o (IF blur_ THEN << <<"blur.release">> >> ELSE << >>)
                ELSE << >>)
            \o << <<"region.destroy">> >>]

\* the fields of the state that the operations of the facade read or write
FacadeBefore ==
    [decorations |-> decorations, background_appearance |-> background_appearance,
     fullscreen |-> fullscreen, maximized |-> maximized, app_id |-> app_id,
     renderer |-> renderer, opaque_region |-> opaque_region, blur |-> blur]

SetClientInset(new_inset) ==
    /\ phase = "live"
    /\ IF Some(new_inset) # inset
       THEN LET u == update_window(decorations, background_appearance, blur)
            IN /\ inset' = Some(new_inset)
               /\ renderer' = u.renderer
               /\ opaque_region' = u.opaque_region
               /\ blur' = u.blur
               /\ Finish(Call("set_client_inset", <<new_inset>>, Unit, u.effects, Unit))
       ELSE /\ Finish(Call("set_client_inset", <<new_inset>>, Unit, << >>, Unit))
            /\ UNCHANGED << inset, renderer, opaque_region, blur >>
    /\ UNCHANGED << configVars, facadeVars, acknowledged_first_configure, geometryVars,
                    latchedVars, pendingVars, window_controls, decorations,
                    background_appearance, outputVars, viewport, callbacks, lifeVars >>

----------------------------------------------------------------------------
(* set_background_appearance, request_decorations and
   handle_toplevel_decoration_event *)

BackgroundAppearances == {"Opaque", "Transparent", "Blurred"}
WindowDecorations == {"Server", "Client"}

\* zxdg_toplevel_decoration_v1::Mode of a decoration configure; "Other" is a
\* value the handler does not know
DecorationModes == {"ServerSide", "ClientSide", "Other"}

SetBackgroundAppearance(new_background) ==
    /\ phase = "live"
    /\ LET u == update_window(decorations, new_background, blur)
       IN /\ background_appearance' = new_background
          /\ renderer' = u.renderer
          /\ opaque_region' = u.opaque_region
          /\ blur' = u.blur
          /\ Finish(Call("set_background_appearance", <<new_background>>, Unit,
                          u.effects, Unit))
    /\ UNCHANGED << configVars, facadeVars, acknowledged_first_configure, geometryVars,
                    latchedVars, pendingVars, window_controls, decorations, inset,
                    outputVars, viewport, callbacks, lifeVars >>

RequestDecorations(requested) ==
    /\ phase = "live"
    /\ decorations' = requested
    /\ IF surface.kind = "Xdg" /\ surface.decoration
       THEN LET u == update_window(requested, background_appearance, blur)
            IN /\ renderer' = u.renderer
               /\ opaque_region' = u.opaque_region
               /\ blur' = u.blur
               /\ Finish(Call("request_decorations", <<requested>>, FacadeBefore,
                               << <<"decoration.set_mode", requested>> >> \o u.effects,
                               Unit))
       ELSE /\ Finish(Call("request_decorations", <<requested>>, FacadeBefore,
                            << <<"log.error">> >>, Unit))
            /\ UNCHANGED << renderer, opaque_region, blur >>
    /\ UNCHANGED << configVars, facadeVars, acknowledged_first_configure, geometryVars,
                    latchedVars, pendingVars, window_controls,
                    background_appearance, inset, outputVars, viewport, callbacks,
                    lifeVars >>

\* faulty variant: a mode that is not ServerSide is taken for ClientSide
DecorationConfigure_UnknownIsClient(mode) ==
    /\ Alive
    /\ decorations' = IF mode = "ServerSide" THEN "Server" ELSE "Client"
    /\ AtCallback(Call("handle_toplevel_decoration_event", <<mode>>, Unit, << >>, Unit),
                  "appearance_changed", << >>, << >>, << >>)
    /\ UNCHANGED << configVars, facadeVars, acknowledged_first_configure, geometryVars,
                    latchedVars, pendingVars, window_controls,
                    background_appearance, blur, renderer, opaque_region, inset,
                    outputVars, viewport, callbacks, teardown >>

DecorationConfigure(mode) ==
    /\ Alive
    /\ IF mode \in {"ServerSide", "ClientSide"}
       THEN /\ decorations' = IF mode = "ServerSide" THEN "Server" ELSE "Client"
            \* the borrow of the state lasts for the assignment only
            /\ AtCallback(AfterBorrow(Call("handle_toplevel_decoration_event", <<mode>>,
                                           Unit, << >>, Unit)),
                          "appearance_changed", << >>, << >>, << >>)
       ELSE /\ decorations' = decorations
            /\ NoCallback(Call("handle_toplevel_decoration_event", <<mode>>, Unit,
                               << <<"log.warn">> >>, Unit))
    /\ UNCHANGED << configVars, facadeVars, acknowledged_first_configure, geometryVars,
                    latchedVars, pendingVars, window_controls,
                    background_appearance, blur, renderer, opaque_region, inset,
                    outputVars, viewport, callbacks, teardown >>

----------------------------------------------------------------------------
(* handle_layer_surface, Configure *)

\* faulty variant: the size is set before the configure is acknowledged
LayerConfigure_SizeFirst(serial, width, height) ==
    /\ Alive
    /\ surface.kind = "Layer"
    /\ acknowledged_first_configure' = TRUE
    /\ LET c == Call("handle_layer_surface", <<serial, width, height>>,
                     [acknowledged_first_configure |-> acknowledged_first_configure],
                     << <<"layer_surface.set_size", width, height>>,
                        <<"layer_surface.ack_configure", serial>> >>,
                     Unit)
       IN IF request_frame_callback THEN FrameFrom(c) ELSE NoCallback(c)
    /\ UNCHANGED << configVars, facadeVars, geometryVars, latchedVars, pendingVars,
                    window_controls, appearanceVars, inset, outputVars, viewport,
                    callbacks, teardown >>

\* faulty variant: the size of the event becomes the size of the window
LayerConfigure_Resizes(serial, width, height) ==
    /\ Alive
    /\ surface.kind = "Layer"
    /\ LET rs == IF width > 0 /\ height > 0 THEN resize(Size(width, height))
                 ELSE [bounds |-> bounds, scale |-> scale, effects |-> << >>]
           c == NoBorrow(Call("handle_layer_surface", <<serial, width, height>>,
                          [acknowledged_first_configure |-> acknowledged_first_configure],
                          << <<"layer_surface.ack_configure", serial>>,
                             <<"layer_surface.set_size", width, height>> >>
                          \o rs.effects,
                          Unit))
       IN /\ bounds' = rs.bounds
          /\ scale' = rs.scale
          /\ acknowledged_first_configure' = TRUE
          /\ IF request_frame_callback THEN FrameFrom(c) ELSE NoCallback(c)
    /\ UNCHANGED << configVars, facadeVars, window_bounds, latchedVars, pendingVars,
                    window_controls, appearanceVars, inset, outputVars, viewport,
                    callbacks, teardown >>

LayerConfigure(serial, width, height) ==
    /\ Alive
    /\ IF surface.kind # "Layer"
       THEN /\ NoCallback(Traced(Call("handle_layer_surface", <<serial, width, height>>,
                                      Unit, << <<"log.error">> >>, Unit),
                                 << BorrowMut, <<"log.error">>, DropBorrow >>))
            /\ UNCHANGED acknowledged_first_configure
       ELSE /\ acknowledged_first_configure' = TRUE
            /\ LET c == Traced(Call("handle_layer_surface", <<serial, width, height>>,
                            [acknowledged_first_configure |-> acknowledged_first_configure],
                            << <<"layer_surface.ack_configure", serial>>,
                               <<"layer_surface.set_size", width, height>> >>,
                            Unit),
                            \* the borrow taken on entry is dropped before frame
                            << BorrowMut, <<"layer_surface.ack_configure", serial>>,
                               <<"layer_surface.set_size", width, height>>,
                               DropBorrow >>)
               IN IF request_frame_callback THEN FrameFrom(c) ELSE NoCallback(c)
    /\ UNCHANGED << configVars, facadeVars, geometryVars, latchedVars, pendingVars,
                    window_controls, appearanceVars, inset, outputVars, viewport,
                    callbacks, teardown >>

----------------------------------------------------------------------------
(* zoom and toggle_fullscreen *)

\* faulty variant: zoom flips the maximized flag itself
Zoom_Optimistic ==
    /\ phase = "live"
    /\ maximized' = ~maximized
    /\ Finish(Call("zoom", << >>, FacadeBefore,
                    IF surface.kind = "Xdg"
                    THEN IF ~maximized THEN << <<"toplevel.set_maximized">> >>
                         ELSE << <<"toplevel.unset_maximized">> >>
                    ELSE << <<"log.error">> >>,
                    Unit))
    /\ UNCHANGED << configVars, facadeVars, acknowledged_first_configure, geometryVars,
                    fullscreen, tiling, pendingVars, window_controls, appearanceVars,
                    inset, outputVars, viewport, callbacks, lifeVars >>

Zoom ==
    /\ phase = "live"
    /\ Finish(Call("zoom", << >>, FacadeBefore,
                    IF surface.kind = "Xdg"
                    THEN IF ~maximized THEN << <<"toplevel.set_maximized">> >>
                         ELSE << <<"toplevel.unset_maximized">> >>
                    ELSE << <<"log.error">> >>,
                    Unit))
    /\ UNCHANGED << configVars, facadeVars, acknowledged_first_configure, geometryVars,
                    latchedVars, pendingVars, window_controls, appearanceVars,
                    inset, outputVars, viewport, callbacks, lifeVars >>

ToggleFullscreen ==
    /\ phase = "live"
    /\ Finish(Call("toggle_fullscreen", << >>, FacadeBefore,
                    IF surface.kind = "Xdg"
                    THEN IF ~fullscreen THEN << <<"toplevel.set_fullscreen">> >>
                         ELSE << <<"toplevel.unset_fullscreen">> >>
                    ELSE << <<"log.error">> >>,
                    Unit))
    /\ UNCHANGED << configVars, facadeVars, acknowledged_first_configure, geometryVars,
                    latchedVars, pendingVars, window_controls, appearanceVars,
                    inset, outputVars, viewport, callbacks, lifeVars >>

----------------------------------------------------------------------------
(* set_title, set_app_id, minimize, show_window_menu, start_window_move and
   start_window_resize *)

Titles == {"a", "b"}
AppIds == {"dev.zed.Zed", "bar"}
ResizeEdges == {"Top", "BottomRight"}

\* an operation of the facade that only sends the request on the toplevel,
\* or logs an error when the surface has no toplevel
ToplevelRequest(op, args, request) ==
    /\ phase = "live"
    /\ Finish(Call(op, args, FacadeBefore,
                    IF surface.kind = "Xdg" THEN << request >>
                    ELSE << <<"log.error">> >>,
                    Unit))
    /\ UNCHANGED << configVars, facadeVars, acknowledged_first_configure,
                    geometryVars, latchedVars, pendingVars, window_controls,
                    appearanceVars, inset, outputVars, viewport, callbacks,
                    lifeVars >>

SetTitle(title) == ToplevelRequest("set_title", <<title>>, <<"toplevel.set_title", title>>)

SetAppId(id) ==
    /\ phase = "live"
    /\ IF surface.kind = "Xdg"
       THEN /\ app_id' = Some(id)
            /\ Finish(Call("set_app_id", <<id>>, FacadeBefore,
                            << <<"toplevel.set_app_id", id>> >>, Unit))
       ELSE /\ app_id' = app_id
            /\ Finish(Call("set_app_id", <<id>>, FacadeBefore,
                            << <<"log.error">> >>, Unit))
    /\ UNCHANGED << configVars, appearance, inputVars, active, hovered,
                    acknowledged_first_configure, geometryVars, latchedVars,
                    pendingVars, window_controls, appearanceVars, inset,
                    outputVars, viewport, callbacks, lifeVars >>

Minimize == ToplevelRequest("minimize", << >>, <<"toplevel.set_minimized">>)

\* serial is what client.get_serial(SerialKind::MousePress) returns
ShowWindowMenu(serial, position) ==
    ToplevelRequest("show_window_menu", <<position>>,
                    <<"toplevel.show_window_menu", serial, position.x, position.y>>)

StartWindowMove(serial) ==
    ToplevelRequest("start_window_move", << >>, <<"toplevel.move", serial>>)

StartWindowResize(serial, edge) ==
    ToplevelRequest("start_window_resize", <<edge>>, <<"toplevel.resize", serial, edge>>)

----------------------------------------------------------------------------
(* set_focused, set_hovered, is_active and is_hovered *)

\* set_focused: latch the flag, then run the registered handler
SetFocused(focus) ==
    /\ Alive
    /\ active' = focus
    /\ AtCallback(AfterBorrow(Call("set_focused", <<focus>>, Unit, << >>, Unit)),
                  "active_status_change", <<focus>>, << >>, << >>)
    /\ UNCHANGED << configVars, appearance, inputVars, hovered, app_id,
                    acknowledged_first_configure, geometryVars, latchedVars,
                    pendingVars, window_controls, appearanceVars, inset,
                    outputVars, viewport, callbacks, teardown >>

\* set_hovered: run the registered handler; the state is not touched
SetHovered(focus) ==
    /\ Alive
    /\ AtCallback(NoBorrow(Call("set_hovered", <<focus>>, Unit, << >>, Unit)),
                  "hover_status_change", <<focus>>, << >>, << >>)
    /\ UNCHANGED << configVars, facadeVars, acknowledged_first_configure,
                    geometryVars, latchedVars, pendingVars, window_controls,
                    appearanceVars, inset, outputVars, viewport, callbacks,
                    teardown >>

WindowAppearances == {"Light", "Dark"}

\* set_appearance: store the appearance, then run the appearance-changed
\* handler
SetAppearance(new_appearance) ==
    /\ Alive
    /\ appearance' = new_appearance
    /\ AtCallback(AfterBorrow(Call("set_appearance", <<new_appearance>>, Unit,
                                   << >>, Unit)),
                  "appearance_changed", << >>, << >>, << >>)
    /\ UNCHANGED << configVars, input_handler, detached, active, hovered, app_id,
                    acknowledged_first_configure, geometryVars, latchedVars,
                    pendingVars, window_controls, appearanceVars, inset,
                    outputVars, viewport, callbacks, teardown >>

\* a query of the facade: it returns the field and changes nothing
Query(op, value) ==
    /\ phase = "live"
    /\ Finish(Call(op, << >>, Unit, << >>, value))
    /\ UNCHANGED << configVars, facadeVars, acknowledged_first_configure,
                    geometryVars, latchedVars, pendingVars, window_controls,
                    appearanceVars, inset, outputVars, viewport, callbacks,
                    lifeVars >>

IsActive == Query("is_active", active)
IsHovered == Query("is_hovered", hovered)

----------------------------------------------------------------------------
(* handle_fractional_scale_event and handle_surface_event *)

OutputIds == 1 .. MaxOutputs
OutputScales == 1 .. MaxScale

\* preferred scales of wp_fractional_scale_v1, in 120ths: 1.25 and 1.5
FractionalScales == {150, 180}

\* the buffer-scale path of Enter and Leave is taken when the wl_surface is
\* older than PreferredBufferScale
UsesOutputScale == wl_surface_version < EVT_PREFERRED_BUFFER_SCALE_SINCE

\* the buffer-scale path of PreferredBufferScale is taken when there is no
\* fractional scale manager
UsesPreferredBufferScale == ~globals.fractional_scale_manager

\* WaylandWindowStatePtr::set_size_and_scale, called with both arguments
SetSizeAndScale(size, new_scale) ==
    /\ Alive
    /\ LET rs == set_size_and_scale(size, new_scale)
       IN /\ bounds' = rs.bounds
          /\ scale' = rs.scale
          /\ SizeAndScale(Call("set_size_and_scale", <<size, new_scale>>,
                               [bounds |-> bounds, scale |-> scale], << >>, Unit),
                          rs)
    /\ UNCHANGED << configVars, facadeVars, acknowledged_first_configure, window_bounds,
                    latchedVars, pendingVars, window_controls, appearanceVars,
                    inset, outputVars, viewport, callbacks, teardown >>

FractionalScale(preferred) ==
    /\ Alive
    /\ globals.fractional_scale_manager
    /\ LET rs == rescale(preferred)
       IN /\ bounds' = rs.bounds
          /\ scale' = rs.scale
          /\ SizeAndScale(Call("handle_fractional_scale_event", <<preferred>>,
                               [scale |-> scale], << >>, Unit),
                          rs)
    /\ UNCHANGED << configVars, facadeVars, acknowledged_first_configure, window_bounds,
                    latchedVars, pendingVars, window_controls, appearanceVars,
                    inset, outputVars, viewport, callbacks, teardown >>

\* the part Enter and Leave share: recompute the primary output over the map
\* outs in the order ord and, on an old wl_surface, apply its scale
ApplyOutputs(op, args, outs, ord) ==
    LET p == primary_output_scale(outs, ord, display)
        rs == IF UsesOutputScale THEN rescale(120 * p.scale)
              ELSE [bounds |-> bounds, scale |-> scale, effects |-> << >>]
        c == Call(op, args, [scale |-> scale], << >>, Unit)
    IN /\ outputs' = outs
       /\ display' = p.display
       /\ bounds' = rs.bounds
       /\ scale' = rs.scale
       /\ IF UsesOutputScale
          \* the borrow taken on entry is dropped before rescale
          THEN SizeAndScale(
                   Extended(c, << <<"wl_surface.set_buffer_scale", p.scale>> >>,
                            << BorrowMut, <<"wl_surface.set_buffer_scale", p.scale>>,
                               DropBorrow >>),
                   rs)
          ELSE NoCallback(Traced(c, << BorrowMut, DropBorrow >>))

\* Enter of an output the client knows, with the scale the client holds for it
SurfaceEnter(id, output_scale) ==
    /\ Alive
    /\ LET outs == [o \in (DOMAIN outputs) \cup {id} |->
                        IF o = id THEN output_scale ELSE outputs[o]]
       IN \E ord \in Orders(outs) :
             ApplyOutputs("handle_surface_event", <<"Enter", id, output_scale>>, outs, ord)
    /\ UNCHANGED << configVars, facadeVars, acknowledged_first_configure, window_bounds,
                    latchedVars, pendingVars, window_controls, appearanceVars,
                    inset, viewport, callbacks, teardown >>

\* Enter of an output the client does not know: the handler returns
SurfaceEnterUnknown ==
    /\ Alive
    /\ Finish(Call("handle_surface_event", <<"Enter", 0, 0>>, [scale |-> scale],
                    << >>, Unit))
    /\ UNCHANGED << configVars, facadeVars, acknowledged_first_configure, geometryVars,
                    latchedVars, pendingVars, window_controls, appearanceVars,
                    inset, outputVars, viewport, callbacks, lifeVars >>

SurfaceLeave(id) ==
    /\ Alive
    /\ LET outs == [o \in (DOMAIN outputs) \ {id} |-> outputs[o]]
       IN \E ord \in Orders(outs) :
             ApplyOutputs("handle_surface_event", <<"Leave", id>>, outs, ord)
    /\ UNCHANGED << configVars, facadeVars, acknowledged_first_configure, window_bounds,
                    latchedVars, pendingVars, window_controls, appearanceVars,
                    inset, viewport, callbacks, teardown >>

PreferredBufferScale(factor) ==
    /\ Alive
    /\ wl_surface_version >= EVT_PREFERRED_BUFFER_SCALE_SINCE
    /\ LET rs == IF UsesPreferredBufferScale THEN rescale(120 * factor)
                 ELSE [bounds |-> bounds, scale |-> scale, effects |-> << >>]
           c == Call("handle_surface_event", <<"PreferredBufferScale", factor>>,
                     [scale |-> scale], << >>, Unit)
       IN /\ bounds' = rs.bounds
          /\ scale' = rs.scale
          /\ IF UsesPreferredBufferScale
             THEN SizeAndScale(
                      Extended(c, << <<"wl_surface.set_buffer_scale", factor>> >>,
                               << BorrowMut, <<"wl_surface.set_buffer_scale", factor>>,
                                  DropBorrow >>),
                      rs)
             ELSE NoCallback(Traced(c, << BorrowMut, DropBorrow >>))
    /\ UNCHANGED << configVars, facadeVars, acknowledged_first_configure, window_bounds,
                    latchedVars, pendingVars, window_controls, appearanceVars,
                    inset, outputVars, viewport, callbacks, teardown >>

\* WaylandWindowStatePtr::primary_output_scale, called by the client
PrimaryOutputScale ==
    /\ Alive
    /\ \E ord \in Orders(outputs) :
          LET p == primary_output_scale(outputs, ord, display)
          IN /\ display' = p.display
             /\ Finish(Call("primary_output_scale", << >>, Unit, << >>, p.scale))
    /\ UNCHANGED << configVars, facadeVars, acknowledged_first_configure, geometryVars,
                    latchedVars, pendingVars, window_controls, appearanceVars,
                    inset, outputs, viewport, callbacks, lifeVars >>

----------------------------------------------------------------------------
(* on_*, close and handle_toplevel_event, Close *)

\* on_*: store the handler in its slot of Callbacks.  The slot is reached
\* through callbacks.borrow_mut(), which panics (BorrowMutError) when the
\* RefCell is already borrowed, as it is while a callback of the window runs
Register(op, kind) ==
    /\ phase = "live"
    /\ IF callbacks_borrowed
       THEN /\ phase' = "panicked"
            /\ callbacks' = callbacks
       ELSE /\ phase' = phase
            /\ callbacks' = [callbacks EXCEPT ![kind] = TRUE]
    /\ call' = Call(op, << >>, [callbacks_borrowed |-> callbacks_borrowed],
                    << >>, Unit)
    /\ running' = running
    /\ UNCHANGED << configVars, facadeVars, acknowledged_first_configure, geometryVars,
                    latchedVars, pendingVars, window_controls, appearanceVars,
                    inset, outputVars, viewport, teardown >>

OnRequestFrame == Register("on_request_frame", "request_frame")
OnInput == Register("on_input", "input")
OnActiveStatusChange == Register("on_active_status_change", "active_status_change")
OnHoverStatusChange == Register("on_hover_status_change", "hover_status_change")
OnResize == Register("on_resize", "resize")
OnMoved == Register("on_moved", "moved")
OnShouldClose == Register("on_should_close", "should_close")
OnClose == Register("on_close", "close")
OnAppearanceChanged == Register("on_appearance_changed", "appearance_changed")

\* faulty variant: close runs the callback and leaves it registered
close_KeepsCallback(cbs) ==
    [callbacks |-> cbs,
     effects |-> IF cbs.close THEN << <<"callback.close">> >> ELSE << >>]

\* close: take the close callback and run it
close(cbs) ==
    [callbacks |-> [cbs EXCEPT !.close = FALSE],
     effects |-> IF cbs.close THEN << <<"callback.close">> >> ELSE << >>]

\* self.close() as the last thing done by an operation that holds no borrow
\* of the callbacks, whose call so far is c and which leaves the callbacks
\* cbs: the close callback is taken out of its slot and run while the borrow
\* of close() is held
CloseFrom(c, cbs) ==
    LET cl == close(cbs)
    IN /\ callbacks' = cl.callbacks
       /\ IF cl.effects # << >>
          THEN /\ call' = Running("close", << >>)
               /\ running' = Some(Suspended(Extended(c, cl.effects, cl.effects),
                                            "end", << >>, << >>, Unit))
          ELSE /\ call' = c
               /\ running' = None

\* WaylandWindowStatePtr::close(), called from outside this file (by the
\* client, for a window whose close-request was accepted): it borrows the
\* callbacks, which panics inside a callback, and runs the close callback
\* when one is registered
Close ==
    /\ Alive
    /\ LET c == NoBorrow(Call("close", << >>, [callbacks |-> callbacks], << >>, Unit))
       IN IF callbacks_borrowed
          THEN /\ phase' = "panicked"
               /\ call' = Panicked(c)
               /\ UNCHANGED << running, callbacks >>
          ELSE /\ phase' = phase
               /\ CloseFrom(c, callbacks)
    /\ UNCHANGED << configVars, facadeVars, acknowledged_first_configure, geometryVars,
                    latchedVars, pendingVars, window_controls, appearanceVars,
                    inset, outputVars, viewport, teardown >>

\* faulty variant: the close-request handler calls close() whatever the predicate says
CloseRequestCallsClose_Always(registered, result) == TRUE

\* whether the close-request handler itself calls close(): when a should-close
\* predicate is registered and returns true
CloseRequestCallsClose(registered, result) == registered /\ result

\* what the close-request handler returns: the predicate's result, true
\* without a predicate
CloseRequestResult(registered, result) == IF registered THEN result ELSE TRUE

\* result is what the should-close predicate returns when it is asked; the
\* predicate is out of its slot while it runs (should_close.take()) and put
\* back when it has returned
ToplevelClose(result) ==
    /\ Alive
    /\ LET c == NoBorrow(Call("handle_toplevel_event", <<"Close">>,
                              [callbacks |-> callbacks], << >>,
                              CloseRequestResult(callbacks.should_close, result)))
       IN IF callbacks_borrowed
          THEN /\ phase' = "panicked"
               /\ call' = Panicked(c)
               /\ UNCHANGED << running, callbacks >>
          ELSE IF callbacks.should_close
          THEN /\ phase' = phase
               /\ call' = Running("should_close", <<result>>)
               /\ running' = Some(Suspended(
                      Extended(c, << <<"callback.should_close", result>> >>,
                               << <<"callback.should_close", result>> >>),
                      "close", << >>, << >>, [result |-> result]))
               /\ callbacks' = [callbacks EXCEPT !.should_close = FALSE]
          ELSE /\ phase' = phase
               /\ IF CloseRequestCallsClose(FALSE, result)
                  THEN CloseFrom(c, callbacks)
                  ELSE call' = c /\ UNCHANGED << running, callbacks >>
    /\ UNCHANGED << configVars, facadeVars, acknowledged_first_configure, geometryVars,
                    latchedVars, pendingVars, window_controls, appearanceVars,
                    inset, outputVars, viewport, teardown >>

----------------------------------------------------------------------------
(* handle_input, handle_ime, get_ime_area, set_input_handler and
   take_input_handler *)

MaxNesting == 2      \* operations of input handlers running inside one another

InputHandlers == {"h1", "h2"}

\* PlatformInput: the kind of the event and, for key events, the key_char of
\* its keystroke
InputEvents ==
    { [kind |-> "KeyDown", key_char |-> Some("a")],
      [kind |-> "KeyDown", key_char |-> None],
      [kind |-> "KeyUp", key_char |-> Some("a")],
      [kind |-> "MouseMove", key_char |-> None] }

ImeInputs == {"InsertText", "SetMarkedText", "UnmarkText", "DeleteText"}

\* faulty variant: the handler is used in place and stays attached
TakeHandler_InPlace(op, todo, ret) ==
    /\ input_handler' = input_handler
    /\ detached' = Append(detached, [handler |-> Unwrap(input_handler), op |-> op,
                                     todo |-> todo, ret |-> ret])

\* `state.input_handler.take()` of an operation that found a handler: the
\* handler leaves the state and is held by the operation op until it returns.
\* todo is what op asks of the handler once the operation of the handler it
\* runs now has returned, and ret is what op returns in the end.
TakeHandler(op, todo, ret) ==
    /\ input_handler' = None
    /\ detached' = Append(detached, [handler |-> Unwrap(input_handler), op |-> op,
                                     todo |-> todo, ret |-> ret])

\* faulty variant: a key-down event is forwarded although the input callback
\* stopped the propagation
ForwardsKey_IgnoresCallback(event, stopped) ==
    event.kind = "KeyDown" /\ IsSome(event.key_char)

\* handle_input goes on to the input handler: the input callback did not
\* stop the propagation and the event is a key-down with a key_char
ForwardsKey(event, stopped) ==
    ~stopped /\ event.kind = "KeyDown" /\ IsSome(event.key_char)

\* handle_input after the input callback, whose borrow has ended: c is the
\* call so far and stopped tells whether the callback stopped the
\* propagation.  A key-down with a key_char goes on to the input handler,
\* and the operation is then over when the input handler returns.
ForwardFrom(c, event, stopped) ==
    LET forward == ForwardsKey(event, stopped) /\ IsSome(input_handler)
        sent == IF forward
                THEN << <<"input_handler.replace_text_in_range",
                          Unwrap(input_handler), None, Unwrap(event.key_char)>> >>
                ELSE << >>
    IN /\ IF forward THEN TakeHandler("handle_input", << >>, Unit)
          ELSE UNCHANGED << input_handler, detached >>
       /\ call' = Extended(c, sent,
                           (IF ForwardsKey(event, stopped)
                            THEN << BorrowMut, DropBorrow >> ELSE << >>) \o sent)
       /\ running' = None

\* handle_input up to the point where the input callback or, without one,
\* the input handler is running; propagate is what the input callback answers.
\* The callbacks are borrowed for the `if let` that runs the callback only.
HandleInput(event, propagate) ==
    /\ Alive
    /\ Len(detached) < MaxNesting
    /\ LET c == Call("handle_input", <<event, propagate>>,
                     [input_handler |-> input_handler], << >>, Unit)
       IN IF callbacks_borrowed
          THEN /\ phase' = "panicked"
               /\ call' = Panicked(c)
               /\ UNCHANGED << running, inputVars >>
          ELSE IF callbacks.input
          THEN /\ phase' = phase
               /\ call' = Running("input", <<event>>)
               /\ running' = Some(Suspended(
                      Extended(c, << <<"callback.input", event>> >>,
                               << <<"callback.input", event>> >>),
                      "forward", << >>, << >>,
                      [event |-> event, propagate |-> propagate]))
               /\ UNCHANGED inputVars
          ELSE /\ phase' = phase
               /\ ForwardFrom(c, event, FALSE)
    /\ UNCHANGED << configVars, appearance, active, hovered, app_id,
                    acknowledged_first_configure, geometryVars, latchedVars,
                    pendingVars, window_controls, appearanceVars, inset,
                    outputVars, viewport, callbacks, teardown >>

\* what handle_ime asks of the handler h, one request after the other;
\* marked tells whether the handler answers marked_text_range with a range
ImeRequests(ime, h, marked) ==
    CASE ime = "InsertText" ->
            << <<"input_handler.replace_text_in_range", h, None, "text">> >>
      [] ime = "SetMarkedText" ->
            << <<"input_handler.replace_and_mark_text_in_range", h, None, "text", None>> >>
      [] ime = "UnmarkText" ->
            << <<"input_handler.unmark_text", h>> >>
      [] ime = "DeleteText" ->
            << <<"input_handler.marked_text_range", h>> >>
            \o (IF marked
                THEN << <<"input_handler.replace_text_in_range", h, Some("marked"), "">> >>
                ELSE << >>)

\* handle_ime up to the point where the operation of the input handler that
\* it asks for first is running
HandleIme(ime, marked) ==
    /\ Alive
    /\ Len(detached) < MaxNesting
    /\ IF IsSome(input_handler)
       THEN LET requests == ImeRequests(ime, Unwrap(input_handler), marked)
            IN /\ TakeHandler("handle_ime", Tail(requests), Unit)
               /\ appearance' = appearance
               /\ Finish(AfterBorrow(Call("handle_ime", <<ime, marked>>,
                                          [input_handler |-> input_handler],
                                          << Head(requests) >>, Unit)))
       ELSE /\ UNCHANGED inputVars
            /\ Finish(AfterBorrow(Call("handle_ime", <<ime, marked>>,
                                       [input_handler |-> input_handler],
                                       << >>, Unit)))
    /\ UNCHANGED << configVars, active, hovered, app_id,
                    acknowledged_first_configure, geometryVars, latchedVars,
                    pendingVars, window_controls, appearanceVars, inset,
                    outputVars, viewport, callbacks, lifeVars >>

\* the answers of the handler to get_ime_area: the selection (none, or
\* whether it is reversed) and the bounds of the range asked for
Selections == {None, Some([reversed |-> FALSE]), Some([reversed |-> TRUE])}
RangeBounds == {None, Some(Bounds(Point(1, 1), Size(1, 2)))}

\* what get_ime_area asks of the handler h, one request after the other: the
\* selection and, when there is one, the bounds of the empty range at its
\* start (reversed) or at its end
ImeAreaRequests(h, selection) ==
    << <<"input_handler.selected_text_range", h, TRUE>> >>
    \o (IF IsSome(selection)
        THEN << <<"input_handler.bounds_for_range", h,
                  IF Unwrap(selection).reversed THEN "start" ELSE "end">> >>
        ELSE << >>)

\* get_ime_area up to the point where selected_text_range of the input
\* handler is running; selection and area are what the handler answers.
\* Without a handler it returns None at once.
GetImeArea(selection, area) ==
    /\ Alive
    /\ Len(detached) < MaxNesting
    /\ IF IsSome(input_handler)
       THEN LET requests == ImeAreaRequests(Unwrap(input_handler), selection)
            IN /\ TakeHandler("get_ime_area", Tail(requests),
                              IF IsSome(selection) THEN area ELSE None)
               /\ appearance' = appearance
               /\ Finish(AfterBorrow(Call("get_ime_area", <<selection, area>>,
                                          [input_handler |-> input_handler],
                                          << Head(requests) >>, Unit)))
       ELSE /\ UNCHANGED inputVars
            /\ Finish(AfterBorrow(Call("get_ime_area", <<selection, area>>,
                                       [input_handler |-> input_handler],
                                       << >>, None)))
    /\ UNCHANGED << configVars, active, hovered, app_id,
                    acknowledged_first_configure, geometryVars, latchedVars,
                    pendingVars, window_controls, appearanceVars, inset,
                    outputVars, viewport, callbacks, lifeVars >>

ReturnOf(op) ==
    CASE op = "handle_input" -> "handle_input.return"
      [] op = "handle_ime" -> "handle_ime.return"
      [] op = "get_ime_area" -> "get_ime_area.return"

NextRequestOf(op) ==
    CASE op = "handle_input" -> "handle_input.next"
      [] op = "handle_ime" -> "handle_ime.next"
      [] op = "get_ime_area" -> "get_ime_area.next"

\* The operation of the input handler that was started last returns.  The
\* operation of the window that holds the handler asks it for what comes
\* next, when there is something, and otherwise stores the handler in the
\* state again and returns.
HandlerReturn ==
    /\ Alive
    /\ detached # << >>
    /\ IF running = None THEN TRUE ELSE Unwrap(running).depth < Len(detached)
    /\ LET top == detached[Len(detached)]
       IN IF top.todo # << >>
          THEN /\ input_handler' = input_handler
               /\ detached' = [detached EXCEPT ![Len(detached)].todo = Tail(top.todo)]
               /\ Continue(NoBorrow(Call(NextRequestOf(top.op), << >>,
                               [input_handler |-> input_handler,
                                detached |-> top.handler],
                               << Head(top.todo) >>, Unit)))
          ELSE /\ input_handler' = Some(top.handler)
               /\ detached' = SubSeq(detached, 1, Len(detached) - 1)
               /\ Continue(AfterBorrow(Call(ReturnOf(top.op), << >>,
                               [input_handler |-> input_handler,
                                detached |-> top.handler],
                               << >>, top.ret)))
    /\ UNCHANGED << configVars, appearance, active, hovered, app_id,
                    acknowledged_first_configure, geometryVars, latchedVars,
                    pendingVars, window_controls, appearanceVars, inset,
                    outputVars, viewport, callbacks, lifeVars >>

SetInputHandler(h) ==
    /\ Alive
    /\ input_handler' = Some(h)
    /\ Finish(Call("set_input_handler", <<h>>, [input_handler |-> input_handler],
                    << >>, Unit))
    /\ UNCHANGED << configVars, appearance, active, hovered, app_id, detached,
                    acknowledged_first_configure, geometryVars, latchedVars,
                    pendingVars, window_controls, appearanceVars, inset,
                    outputVars, viewport, callbacks, lifeVars >>

TakeInputHandler ==
    /\ Alive
    /\ input_handler' = None
    /\ Finish(Call("take_input_handler", << >>, [input_handler |-> input_handler],
                    << >>, input_handler))
    /\ UNCHANGED << configVars, appearance, active, hovered, app_id, detached,
                    acknowledged_first_configure, geometryVars, latchedVars,
                    pendingVars, window_controls, appearanceVars, inset,
                    outputVars, viewport, callbacks, lifeVars >>

----------------------------------------------------------------------------
(* frame, as the client calls it when a frame callback is done, for as long
   as the window is in its registry *)

\* frame up to the point where the request_frame handler is running: the
\* handler runs while `cb`, the mutable borrow of Callbacks, is held.  Without
\* a handler frame is over at once, and inside a callback it panics.
Frame ==
    /\ Alive
    /\ FrameFrom(Call("frame", << >>, Unit, << >>, Unit))
    /\ UNCHANGED << configVars, facadeVars, acknowledged_first_configure,
                    geometryVars, latchedVars, pendingVars, window_controls,
                    appearanceVars, inset, outputVars, viewport, callbacks,
                    teardown >>

\* The callback that is running returns: the operation that ran it drops its
\* borrow of the callbacks and goes on from where it was, on the state as it
\* is now.  The operations of input handlers that began inside the callback
\* have returned before.
CallbackReturnIn(ConfigureFrom(_, _, _, _)) ==
    /\ Alive
    /\ running # None
    /\ Len(detached) = Unwrap(running).depth
    /\ LET f == Unwrap(running)
           c == Extended(f.rec, f.tail, f.tail_steps)
       IN IF f.next \in {"payload", "ack"}
          THEN /\ ConfigureFrom(f.next, c, f.arg.serial, in_progress_configure)
               /\ UNCHANGED << configVars, facadeVars, appearanceVars, inset,
                               outputVars, viewport, callbacks, teardown >>
          ELSE IF f.next = "close"
          THEN /\ phase' = phase
               /\ LET restored == [callbacks EXCEPT !.should_close = TRUE]
                  IN IF CloseRequestCallsClose(TRUE, f.arg.result)
                     THEN CloseFrom(c, restored)
                     ELSE /\ call' = c
                          /\ running' = None
                          /\ callbacks' = restored
               /\ UNCHANGED << configVars, facadeVars, acknowledged_first_configure,
                               geometryVars, latchedVars, pendingVars,
                               window_controls, appearanceVars, inset, outputVars,
                               viewport, teardown >>
          ELSE IF f.next = "forward"
          THEN /\ phase' = phase
               /\ ForwardFrom(c, f.arg.event, ~f.arg.propagate)
               /\ UNCHANGED << configVars, appearance, active, hovered, app_id,
                               acknowledged_first_configure, geometryVars,
                               latchedVars, pendingVars, window_controls,
                               appearanceVars, inset, outputVars, viewport,
                               callbacks, teardown >>
          ELSE /\ phase' = IF f.next = "drop_window" THEN "closed" ELSE phase
               /\ teardown' = IF f.next = "drop_window"
                              THEN teardown \o << "client.drop_window" >>
                              ELSE teardown
               /\ call' = c
               /\ running' = None
               /\ UNCHANGED << configVars, facadeVars, acknowledged_first_configure,
                               geometryVars, latchedVars, pendingVars,
                               window_controls, appearanceVars, inset, outputVars,
                               viewport, callbacks >>

CallbackReturn == CallbackReturnIn(XdgConfigureFrom)

----------------------------------------------------------------------------
(* Drop for WaylandWindow and the task it spawns *)

\* Surface::destory
SurfaceDestroy ==
    IF surface.kind = "Xdg"
    THEN << "xdg_surface.destroy", "toplevel.destroy" >>
         \o (IF surface.decoration THEN << "decoration.destroy" >> ELSE << >>)
    ELSE << "layer_surface.destroy" >>

\* faulty variant: the wl_surface is destroyed first
DropSteps_SurfaceFirst ==
    << "wl_surface.destroy", "renderer.destroy" >>
    \o (IF blur THEN << "blur.release" >> ELSE << >>)
    \o (IF viewport THEN << "viewport.destroy" >> ELSE << >>)
    \o SurfaceDestroy

\* the synchronous part of drop
DropSteps ==
    << "renderer.destroy" >>
    \o (IF blur THEN << "blur.release" >> ELSE << >>)
    \o (IF viewport THEN << "viewport.destroy" >> ELSE << >>)
    \o << "wl_surface.destroy" >>
    \o SurfaceDestroy

Drop ==
    /\ phase = "live"
    /\ phase' = "dropped"
    /\ teardown' = DropSteps \o << "executor.spawn" >>
    /\ renderer' = [renderer EXCEPT !.alive = FALSE]
    /\ Finish(Call("drop", << >>, Unit, << >>, Unit))
    /\ UNCHANGED << configVars, facadeVars, acknowledged_first_configure, geometryVars,
                    latchedVars, pendingVars, window_controls, decorations,
                    background_appearance, blur, opaque_region, inset, outputVars,
                    viewport, callbacks >>

\* the spawned task: state_ptr.close(), then client.drop_window(surface_id)
TeardownTask ==
    /\ phase = "dropped"
    /\ LET c == NoBorrow(Call("drop.task", << >>, [callbacks |-> callbacks],
                              << >>, Unit))
           cl == close(callbacks)
       IN IF callbacks_borrowed
          THEN /\ phase' = "panicked"
               /\ call' = Panicked(c)
               /\ UNCHANGED << running, callbacks, teardown >>
          ELSE IF cl.effects # << >>
          THEN /\ phase' = phase
               /\ callbacks' = cl.callbacks
               /\ teardown' = teardown \o << "callback.close" >>
               /\ call' = Running("close", << >>)
               /\ running' = Some(Suspended(Extended(c, cl.effects, cl.effects),
                                            "drop_window", << >>, << >>, Unit))
          ELSE /\ phase' = "closed"
               /\ callbacks' = cl.callbacks
               /\ teardown' = teardown \o << "client.drop_window" >>
               /\ call' = c
               /\ running' = running
    /\ UNCHANGED << configVars, facadeVars, acknowledged_first_configure, geometryVars,
                    latchedVars, pendingVars, window_controls, appearanceVars,
                    inset, outputVars, viewport >>

----------------------------------------------------------------------------
(* The configure handshake of a toplevel window *)

\* The compositor sends the events of a protocol object to the window that
\* has the object: those of an xdg_toplevel to a toplevel window, those of a
\* toplevel decoration to a toplevel window that has one
HasToplevel == surface.kind = "Xdg"
HasDecoration == surface.kind = "Xdg" /\ surface.decoration

Init ==
    InitState(NormalParams, TRUE, FALSE, FALSE, FALSE, EVT_PREFERRED_BUFFER_SCALE_SINCE)

Next ==
    \/ \E wh \in SuggestedSizes, states \in StateArrays :
            ToplevelConfigure(wh[1], wh[2], states)
    \/ \E serial \in Serials : XdgSurfaceConfigure(serial)
    \/ \E i \in Insets : SetClientInset(i)

Spec == Init /\ [][Next]_vars

----------------------------------------------------------------------------
(* A window of either kind under every operation that touches its geometry,
   with few inputs *)

WindowSizes == {<<0, 0>>, <<DimStep, DimStep + 1>>}
WindowStateArrays == { {}, {StateMaximized}, {StateFullscreen} }

InitWindow ==
    \E kind \in {"Xdg", "Layer"} :
        InitState(ParamsOf(kind), kind = "Xdg", TRUE, TRUE, FALSE,
                  EVT_PREFERRED_BUFFER_SCALE_SINCE - 1)

NextWindow ==
    \/ HasToplevel /\ \E wh \in WindowSizes, states \in WindowStateArrays :
                        ToplevelConfigure(wh[1], wh[2], states)
    \/ \E serial \in Serials : XdgSurfaceConfigure(serial)
    \/ \E serial \in Serials, wh \in WindowSizes :
            LayerConfigure(serial, wh[1], wh[2])
    \/ SetClientInset(MaxInset)
    \/ \E preferred \in FractionalScales : FractionalScale(preferred)
    \/ SurfaceEnter(1, MaxScale)
    \/ SurfaceLeave(1)
    \/ HasDecoration /\ \E mode \in DecorationModes : DecorationConfigure(mode)
    \/ \E requested \in WindowDecorations : RequestDecorations(requested)
    \/ Zoom
    \/ ToggleFullscreen

SpecWindow == InitWindow /\ [][NextWindow]_vars

----------------------------------------------------------------------------
(* Outputs and scale *)

InitOutputs ==
    \E has_fractional \in BOOLEAN,
       version \in {EVT_PREFERRED_BUFFER_SCALE_SINCE - 1, EVT_PREFERRED_BUFFER_SCALE_SINCE} :
        InitState(NormalParams, TRUE, has_fractional, FALSE, FALSE, version)

NextOutputs ==
    \/ \E id \in OutputIds, s \in OutputScales : SurfaceEnter(id, s)
    \/ SurfaceEnterUnknown
    \/ \E id \in OutputIds : SurfaceLeave(id)
    \/ \E factor \in OutputScales : PreferredBufferScale(factor)
    \/ \E preferred \in FractionalScales : FractionalScale(preferred)
    \/ PrimaryOutputScale

SpecOutputs == InitOutputs /\ [][NextOutputs]_vars

----------------------------------------------------------------------------
(* Decorations, background appearance and inset *)

InitAppearance ==
    \E has_decoration \in BOOLEAN, has_blur \in BOOLEAN :
        InitState(NormalParams, has_decoration, FALSE, FALSE, has_blur,
                  EVT_PREFERRED_BUFFER_SCALE_SINCE)

NextAppearance ==
    \/ \E new_background \in BackgroundAppearances :
            SetBackgroundAppearance(new_background)
    \/ \E requested \in WindowDecorations : RequestDecorations(requested)
    \/ HasDecoration /\ \E mode \in DecorationModes : DecorationConfigure(mode)
    \/ \E i \in Insets : SetClientInset(i)

SpecAppearance == InitAppearance /\ [][NextAppearance]_vars

----------------------------------------------------------------------------
(* Close requests and teardown *)

InitClose ==
    \E kind \in {"Xdg", "Layer"}, has_decoration \in BOOLEAN,
       has_viewport \in BOOLEAN, has_blur \in BOOLEAN :
        /\ has_decoration => kind = "Xdg"
        /\ InitState(ParamsOf(kind), has_decoration, FALSE, has_viewport, has_blur,
                     EVT_PREFERRED_BUFFER_SCALE_SINCE)

NextClose ==
    \/ OnShouldClose
    \/ OnClose
    \/ HasToplevel /\ \E result \in BOOLEAN : ToplevelClose(result)
    \/ Close
    \/ \E new_background \in BackgroundAppearances :
            SetBackgroundAppearance(new_background)
    \/ Drop
    \/ TeardownTask
    \/ CallbackReturn

SpecClose == InitClose /\ [][NextClose]_vars

----------------------------------------------------------------------------
(* The operations of the facade on a window of either kind *)

InitFacade ==
    \E kind \in {"Xdg", "Layer"}, has_decoration \in BOOLEAN :
        /\ has_decoration => kind = "Xdg"
        /\ InitState(ParamsOf(kind), has_decoration, FALSE, FALSE, FALSE,
                     EVT_PREFERRED_BUFFER_SCALE_SINCE)

NextFacade ==
    \/ \E title \in Titles : SetTitle(title)
    \/ Idle /\ \E id \in AppIds : SetAppId(id)
    \/ Idle /\ Minimize
    \/ Idle /\ Zoom
    \/ Idle /\ ToggleFullscreen
    \/ Idle /\ \E serial \in Serials : ShowWindowMenu(serial, Point(1, 2))
    \/ Idle /\ \E serial \in Serials : StartWindowMove(serial)
    \/ Idle /\ \E serial \in Serials, edge \in ResizeEdges : StartWindowResize(serial, edge)
    \/ Idle /\ \E requested \in WindowDecorations : RequestDecorations(requested)
    \/ Idle /\ HasToplevel /\ \E states \in {{StateMaximized}, {StateFullscreen}, {}} :
            ToplevelConfigure(0, 0, states)
    \/ Idle /\ \E serial \in Serials : XdgSurfaceConfigure(serial)
    \/ OnActiveStatusChange
    \/ OnHoverStatusChange
    \/ \E focus \in BOOLEAN : SetFocused(focus)
    \/ \E focus \in BOOLEAN : SetHovered(focus)
    \/ IsActive
    \/ IsHovered
    \/ CallbackReturn

SpecFacade == InitFacade /\ [][NextFacade]_vars

----------------------------------------------------------------------------
(* Creation of a window, which fails when the renderer cannot be created, and
   what the toolkit does with a window that was created *)

\* the settings of the layer surfaces that are created: with and without
\* pointer input, a margin and an exclusive zone
CreateSettings ==
    { LayerShellSettings("Overlay", 12, zone, "Exclusive", "panel", pointer, margin) :
        zone \in {None, Some(3)}, pointer \in BOOLEAN,
        margin \in {None, Some(<<1, 0, -2, 3>>)} }

\* the parameters of the windows that are created
CreateParams ==
    { WindowParams("Normal", None, InitialBounds, min) : min \in {None, Some(Size(3, 4))} }
    \cup { WindowParams("LayerShell", Some(settings), InitialBounds, None) :
             settings \in CreateSettings }
    \cup { SimpleBarParams, WindowParams("PopUp", None, InitialBounds, None) }

InitCreate ==
    \E params \in CreateParams, has_decoration \in BOOLEAN,
       has_fractional \in BOOLEAN, has_viewport \in BOOLEAN, renderer_ok \in BOOLEAN :
        NewWindow(params, has_decoration, has_fractional, has_viewport, FALSE,
                  EVT_PREFERRED_BUFFER_SCALE_SINCE, renderer_ok)

NextCreate ==
    \/ \E title \in Titles : SetTitle(title)
    \/ \E new_background \in BackgroundAppearances :
            SetBackgroundAppearance(new_background)
    \/ \E requested \in WindowDecorations : RequestDecorations(requested)
    \/ OnClose
    \/ Drop
    \/ TeardownTask
    \/ CallbackReturn

SpecCreate == InitCreate /\ [][NextCreate]_vars

----------------------------------------------------------------------------
(* The configure handshake of a small window with large insets, where the
   inset geometry can become empty *)

SmallSizes == {<<0, 0>>, <<1, 2>>, <<2, 3>>}
SmallStateArrays ==
    { {}, {StateMaximized}, {StateTiledLeft}, {StateTiledTop, StateTiledBottom} }
LargeInsets == 0 .. MaxInset + 1

NextGeometry ==
    \/ \E wh \in SmallSizes, states \in SmallStateArrays :
            ToplevelConfigure(wh[1], wh[2], states)
    \/ \E serial \in Serials : XdgSurfaceConfigure(serial)
    \/ \E i \in LargeInsets : SetClientInset(i)

SpecGeometry == Init /\ [][NextGeometry]_vars

----------------------------------------------------------------------------
(* compute_outer_size applied to every input of a bounded set *)

Tilings == [top : BOOLEAN, left : BOOLEAN, right : BOOLEAN, bottom : BOOLEAN]
OptionalInsets == {None} \cup {Some(i) : i \in LargeInsets}
OptionalSizes ==
    {None} \cup {Some(Size(w, w + 1)) : w \in DimStep .. DimStep + MaxDim}

ComputeOuterSize(inset_, new_size, tiling_) ==
    /\ Finish(Call("compute_outer_size", <<inset_, new_size, tiling_>>, Unit, << >>,
                    compute_outer_size(inset_, new_size, tiling_)))
    /\ UNCHANGED << configVars, facadeVars, acknowledged_first_configure,
                    geometryVars, latchedVars, pendingVars, window_controls,
                    appearanceVars, inset, outputVars, viewport, callbacks,
                    lifeVars >>

NextOuterSize ==
    \E inset_ \in OptionalInsets, new_size \in OptionalSizes, tiling_ \in Tilings :
        ComputeOuterSize(inset_, new_size, tiling_)

SpecOuterSize == Init /\ [][NextOuterSize]_vars

----------------------------------------------------------------------------
(* Registration of handlers, between and during the callbacks of the window *)

NextCallbacks ==
    \/ OnRequestFrame
    \/ OnInput
    \/ OnActiveStatusChange
    \/ OnHoverStatusChange
    \/ OnResize
    \/ OnMoved
    \/ OnShouldClose
    \/ OnClose
    \/ OnAppearanceChanged
    \/ Frame
    \/ CallbackReturn
    \/ \E focus \in BOOLEAN : SetFocused(focus)
    \/ \E focus \in BOOLEAN : SetHovered(focus)

SpecCallbacks == Init /\ [][NextCallbacks]_vars

----------------------------------------------------------------------------
(* Configure sequences in which toplevel configures follow one another
   before the xdg-surface configure, on a window of either kind.  The
   compositor sends a configure of FirstConfigures when no payload is pending
   and one of LaterConfigures, whose sizes no first configure has, when one
   is: a pending payload with such a size has replaced another payload. *)

LaterSizes == {<<2 * DimStep, 2 * DimStep + 1>>, <<DimStep + 1, DimStep>>}

FirstConfigures ==
    {<<wh[1], wh[2], states>> : wh \in WindowSizes, states \in WindowStateArrays}
LaterConfigures ==
    {<<wh[1], wh[2], states>> : wh \in LaterSizes, states \in WindowStateArrays}

InitSequence ==
    \E kind \in {"Xdg", "Layer"} :
        InitState(ParamsOf(kind), kind = "Xdg", FALSE, FALSE, FALSE,
                  EVT_PREFERRED_BUFFER_SCALE_SINCE)

NextSequence ==
    \/ in_progress_configure = None
          /\ \E c \in FirstConfigures : ToplevelConfigure(c[1], c[2], c[3])
    \/ in_progress_configure # None
          /\ \E c \in LaterConfigures : ToplevelConfigure(c[1], c[2], c[3])
    \/ \E serial \in Serials : XdgSurfaceConfigure(serial)
    \/ \E i \in Insets : SetClientInset(i)

SpecSequence == InitSequence /\ [][NextSequence]_vars

----------------------------------------------------------------------------
(* The xdg-surface configure of a window with handlers, capabilities and a
   viewport *)

InitAck ==
    \E has_viewport \in BOOLEAN :
        InitState(NormalParams, TRUE, FALSE, has_viewport, FALSE,
                  EVT_PREFERRED_BUFFER_SCALE_SINCE)

NextAck ==
    \/ OnResize
    \/ OnAppearanceChanged
    \/ OnRequestFrame
    \/ Idle /\ \E capabilities \in CapabilitySets : ToplevelWmCapabilities(capabilities)
    \/ callbacks_borrowed /\ ToplevelWmCapabilities({"Maximize", "Minimize"})
    \/ Idle /\ \E wh \in WindowSizes, states \in WindowStateArrays :
                  ToplevelConfigure(wh[1], wh[2], states)
    \/ callbacks_borrowed /\ ToplevelConfigure(DimStep, DimStep + 1, {StateMaximized})
    \/ Idle /\ \E serial \in Serials : XdgSurfaceConfigure(serial)
    \/ SetClientInset(MaxInset)
    \/ CallbackReturn

SpecAck == InitAck /\ [][NextAck]_vars

----------------------------------------------------------------------------
(* The window controls of a toplevel window, for every default *)

InitControls ==
    NewWindow(NormalParams, TRUE, FALSE, FALSE, FALSE,
              EVT_PREFERRED_BUFFER_SCALE_SINCE, TRUE)

NextControls ==
    \/ OnResize
    \/ OnAppearanceChanged
    \/ OnRequestFrame
    \/ Idle /\ \E capabilities \in CapabilitySets : ToplevelWmCapabilities(capabilities)
    \/ callbacks_borrowed /\ ToplevelWmCapabilities({"Maximize", "Minimize"})
    \/ Idle /\ ToplevelConfigure(DimStep, DimStep + 1, {StateMaximized})
    \/ callbacks_borrowed /\ ToplevelConfigure(DimStep, DimStep + 1, { })
    \/ Idle /\ \E serial \in Serials : XdgSurfaceConfigure(serial)
    \/ CallbackReturn

SpecControls == InitControls /\ [][NextControls]_vars

----------------------------------------------------------------------------
(* set_size_and_scale applied to every pair of optional size and scale, on a
   window with or without a viewport and a resize handler *)

ResizeSizes == {None, Some(InitialBounds.size), Some(Size(DimStep, DimStep + 1))}
ResizeScales == {None, Some(120), Some(150), Some(240)}

InitResize ==
    \E has_viewport \in BOOLEAN :
        InitState(NormalParams, TRUE, TRUE, has_viewport, FALSE,
                  EVT_PREFERRED_BUFFER_SCALE_SINCE)

NextResize ==
    \/ OnResize
    \/ \E size \in ResizeSizes, new_scale \in ResizeScales :
            SetSizeAndScale(size, new_scale)
    \/ CallbackReturn

SpecResize == InitResize /\ [][NextResize]_vars

----------------------------------------------------------------------------
(* Input events and IME operations on a window whose input handler can be
   attached, taken and replaced at any time, also while it is running *)

NextInput ==
    \/ OnInput
    \/ \E h \in InputHandlers : SetInputHandler(h)
    \/ TakeInputHandler
    \/ \E event \in InputEvents, propagate \in BOOLEAN : HandleInput(event, propagate)
    \/ \E ime \in ImeInputs, marked \in BOOLEAN : HandleIme(ime, marked)
    \/ \E selection \in Selections, area \in RangeBounds : GetImeArea(selection, area)
    \/ HandlerReturn
    \/ CallbackReturn

SpecInput == Init /\ [][NextInput]_vars

----------------------------------------------------------------------------
(* The configure handshake of a layer-shell surface *)

InitLayer ==
    \E has_viewport \in BOOLEAN :
        InitState(LayerShellParams, FALSE, TRUE, has_viewport, FALSE,
                  EVT_PREFERRED_BUFFER_SCALE_SINCE)

NextLayer ==
    \/ OnRequestFrame
    \/ \E serial \in Serials, wh \in SuggestedSizes :
            LayerConfigure(serial, wh[1], wh[2])
    \/ \E serial \in Serials : XdgSurfaceConfigure(serial)
    \/ \E i \in LargeInsets : SetClientInset(i)
    \/ CallbackReturn

SpecLayer == InitLayer /\ [][NextLayer]_vars

----------------------------------------------------------------------------
(* Decoration modes chosen by the compositor and by the application, on a
   window whose appearance-changed handler may be registered *)

NextDecoration ==
    \/ OnAppearanceChanged
    \/ \E mode \in DecorationModes : DecorationConfigure(mode)
    \/ \E requested \in WindowDecorations : RequestDecorations(requested)
    \/ \E new_background \in BackgroundAppearances :
            SetBackgroundAppearance(new_background)
    \/ \E i \in Insets : SetClientInset(i)
    \/ CallbackReturn

SpecDecoration == Init /\ [][NextDecoration]_vars

----------------------------------------------------------------------------
(* The configure handshake together with zoom and toggle_fullscreen *)

NextLatch ==
    \/ \E wh \in WindowSizes, states \in StateArrays :
            ToplevelConfigure(wh[1], wh[2], states)
    \/ \E serial \in Serials : XdgSurfaceConfigure(serial)
    \/ SetClientInset(MaxInset)
    \/ Zoom
    \/ ToggleFullscreen

SpecLatch == Init /\ [][NextLatch]_vars

----------------------------------------------------------------------------
(* Every operation that runs a registered handler or an operation of the
   input handler, on a window with all handlers registered *)

\* the handlers of a window, in the order of the fields of Callbacks
HandlerKinds ==
    << "request_frame", "input", "active_status_change", "hover_status_change",
       "resize", "moved", "should_close", "close", "appearance_changed" >>

InitBorrow ==
    \E config \in { <<"Xdg", TRUE, EVT_PREFERRED_BUFFER_SCALE_SINCE - 1>>,
                     <<"Xdg", FALSE, EVT_PREFERRED_BUFFER_SCALE_SINCE>>,
                     <<"Layer", TRUE, EVT_PREFERRED_BUFFER_SCALE_SINCE - 1>> } :
        InitState(ParamsOf(config[1]), config[1] = "Xdg", config[2], TRUE, FALSE,
                  config[3])

\* The toolkit registers the nine handlers of a window it has created, one
\* after the other in the order of HandlerKinds, before the window handles
\* anything else: Registers(i) holds when the i-th handler is the next one,
\* and Registered once the last one has been registered
Registered == callbacks.appearance_changed
Registers(i) ==
    /\ ~Registered
    /\ ~callbacks[HandlerKinds[i]]
    /\ i > 1 => callbacks[HandlerKinds[i - 1]]

\* the operations are explored in three groups, each on one of the three
\* windows of InitBorrow; those guarded by Idle are not explored inside the
\* callbacks
OnLayer == Registered /\ surface.kind = "Layer"
OnOldXdg == Registered /\ surface.kind = "Xdg" /\ UsesOutputScale
OnNewXdg == Registered /\ surface.kind = "Xdg" /\ ~UsesOutputScale

NextBorrow ==
    \/ Registers(1) /\ OnRequestFrame
    \/ Registers(2) /\ OnInput
    \/ Registers(3) /\ OnActiveStatusChange
    \/ Registers(4) /\ OnHoverStatusChange
    \/ Registers(5) /\ OnResize
    \/ Registers(6) /\ OnMoved
    \/ Registers(7) /\ OnShouldClose
    \/ Registers(8) /\ OnClose
    \/ Registers(9) /\ OnAppearanceChanged
    \/ OnLayer /\ Frame
    \/ CallbackReturn
    \/ Idle /\ OnLayer /\ \E serial \in Serials : LayerConfigure(serial, DimStep, DimStep + 1)
    \/ Idle /\ OnLayer /\ \E focus \in BOOLEAN : SetFocused(focus)
    \/ Idle /\ OnLayer /\ SetHovered(TRUE)
    \/ Idle /\ OnLayer /\ \E new_appearance \in WindowAppearances : SetAppearance(new_appearance)
    \/ OnLayer /\ Drop
    \/ Idle /\ OnLayer /\ TeardownTask
    \/ Idle /\ OnOldXdg /\ \E states \in {{}, {StateMaximized}} :
                        ToplevelConfigure(DimStep, DimStep + 1, states)
    \/ Idle /\ OnOldXdg /\ ToplevelWmCapabilities({"Maximize", "Minimize"})
    \/ Idle /\ OnOldXdg /\ \E serial \in Serials : XdgSurfaceConfigure(serial)
    \/ Idle /\ OnOldXdg /\ \E mode \in DecorationModes : DecorationConfigure(mode)
    \/ Idle /\ OnOldXdg /\ \E preferred \in FractionalScales : FractionalScale(preferred)
    \/ Idle /\ OnOldXdg /\ SurfaceEnter(1, MaxScale)
    \/ Idle /\ OnOldXdg /\ SurfaceLeave(1)
    \/ Idle /\ OnOldXdg /\ \E result \in BOOLEAN : ToplevelClose(result)
    \/ Idle /\ OnNewXdg /\ PreferredBufferScale(MaxScale)
    \/ Idle /\ OnNewXdg /\ SetSizeAndScale(Some(Size(DimStep, DimStep + 1)), Some(120 * MaxScale))
    \/ OnNewXdg /\ SetInputHandler("h1")
    \/ Idle /\ OnNewXdg /\ \E event \in InputEvents, propagate \in BOOLEAN :
                        HandleInput(event, propagate)
    \/ OnNewXdg /\ \E ime \in ImeInputs, marked \in BOOLEAN : HandleIme(ime, marked)
    \/ Idle /\ OnNewXdg /\ \E selection \in Selections : GetImeArea(selection, None)
    \/ OnNewXdg /\ HandlerReturn

SpecBorrow == InitBorrow /\ [][NextBorrow]_vars

----------------------------------------------------------------------------
(* Events handled between drop and the task that removes the window from
   the registry of the client *)

InitTeardown ==
    \E kind \in {"Xdg", "Layer"} :
        InitState(ParamsOf(kind), kind = "Xdg", TRUE, TRUE, FALSE,
                  EVT_PREFERRED_BUFFER_SCALE_SINCE - 1)

NextTeardown ==
    \/ OnRequestFrame
    \/ HasToplevel /\ \E states \in {{}, {StateMaximized}} :
            ToplevelConfigure(DimStep, DimStep + 1, states)
    \/ \E serial \in Serials : XdgSurfaceConfigure(serial)
    \/ \E serial \in Serials : LayerConfigure(serial, DimStep, DimStep + 1)
    \/ \E preferred \in FractionalScales : FractionalScale(preferred)
    \/ \E s \in OutputScales : SurfaceEnter(1, s)
    \/ SurfaceLeave(1)
    \/ Frame
    \/ CallbackReturn
    \/ Drop
    \/ TeardownTask

SpecTeardown == InitTeardown /\ [][NextTeardown]_vars

----------------------------------------------------------------------------
(* Properties of the configure handshake *)

\* nothing was handled inside the callbacks that the operation of c ran
Undisturbed(c) == c.nested = 0

\* this step runs the registered callback of `kind`: the operation that runs
\* it waits, and its call so far is Waiting
BeginsCallback(kind) ==
    /\ running' # running
    /\ call'.op = "callback"
    /\ call'.args[1] = kind
Waiting == Unwrap(running').rec

\* this step is a step of the operation op: the one that ends it, or one
\* that leaves it waiting for a callback it runs
StepOf(op) ==
    \/ call'.op = op
    \/ call'.op = "callback" /\ running' # running /\ Waiting.op = op

\* the call so far of the operation that takes the step
Stepped == IF call'.op = "callback" THEN Waiting ELSE call'

\* the last operation was an xdg-surface configure on a toplevel window
XdgAck == call.op = "handle_xdg_surface_event" /\ surface.kind = "Xdg"

\* ... and it committed a pending payload
AckCommitted == XdgAck /\ IsSome(call.before.in_progress_configure)
Payload == Unwrap(call.before.in_progress_configure)

\* C1: un-maximizing restores the window_bounds size saved before the window
\* became maximized.  No step that ends with the window maximized (the step
\* that maximizes it and every step while it stays maximized) changes
\* window_bounds.size, and the ack that commits a payload with neither
\* maximized nor fullscreen while the state is maximized keeps that size in
\* window_bounds and makes it the size of bounds (through resize), whatever
\* size the payload carries.
C1_UnmaximizeRestores ==
    [][ /\ maximized' => window_bounds'.size = window_bounds.size
        /\ (maximized /\ ~maximized' /\ ~fullscreen')
              => /\ window_bounds'.size = window_bounds.size
                 /\ bounds'.size = window_bounds.size ]_vars

\* an un-maximize was committed whose payload suggested another size than the
\* saved one
C1_Witness ==
    /\ AckCommitted
    /\ call.before.maximized /\ ~Payload.maximized /\ ~Payload.fullscreen
    /\ IsSome(Payload.size)
    /\ Unwrap(Payload.size) # call.before.window_bounds.size
    /\ call.before.bounds.size # call.before.window_bounds.size
    /\ window_bounds.size = InitialBounds.size

\* C2 as stated: after an ack that commits a payload with a suggested size,
\* window_bounds.size is the outer size of the suggested size exactly when
\* neither fullscreen nor maximized is set.
C2_Original ==
    (AckCommitted /\ IsSome(Payload.size))
        => ((Some(window_bounds.size) = compute_outer_size(inset, Payload.size, tiling))
               <=> ~(fullscreen \/ maximized))

\* C2 amended: after an ack that commits a payload with a suggested size: if
\* neither fullscreen nor maximized is set and the window was not maximized
\* before the ack, window_bounds.size is the outer size of the suggested size
\* under the latched tiling; if the window was maximized before (un-maximize),
\* window_bounds.size keeps its saved value; if fullscreen or maximized is
\* set, window_bounds is left as it was.
C2_OuterSizeWhenWindowed ==
    (AckCommitted /\ IsSome(Payload.size)) =>
        /\ (~fullscreen /\ ~maximized /\ ~call.before.maximized)
              => Some(window_bounds.size)
                    = compute_outer_size(inset, Payload.size, tiling)
        /\ (~fullscreen /\ ~maximized /\ call.before.maximized)
              => window_bounds.size = call.before.window_bounds.size
        /\ (fullscreen \/ maximized)
              => window_bounds = call.before.window_bounds

\* a windowed configure was committed with an inset and an untiled edge, so
\* that the outer size differs from the suggested size
C2_Witness ==
    /\ AckCommitted /\ IsSome(Payload.size)
    /\ ~fullscreen /\ ~maximized /\ ~call.before.maximized
    /\ IsSome(inset) /\ Unwrap(inset) > 0
    /\ tiling.left /\ ~tiling.right
    /\ window_bounds.size # Unwrap(Payload.size)
    /\ window_bounds.size # call.before.window_bounds.size

\* C4: in every state, fullscreen or maximized implies that all four tiling
\* edges are set (and so does every pending payload).
C4_FullTilingWhenMaximized ==
    /\ (fullscreen \/ maximized) => tiling = TilingTiled
    /\ IsSome(in_progress_configure) =>
          LET c == Unwrap(in_progress_configure)
          IN (c.fullscreen \/ c.maximized) => c.tiling = TilingTiled

\* the window is maximized and a configure that reports Maximized with only
\* the top and left edges tiled is pending with all four edges set
C4_Witness ==
    /\ maximized /\ ~fullscreen /\ tiling = TilingTiled
    /\ call.op = "handle_toplevel_event" /\ call.args[1] = "Configure"
    /\ call.args[4] = {StateMaximized, StateTiledTop, StateTiledLeft}
    /\ Unwrap(in_progress_configure).tiling = TilingTiled

----------------------------------------------------------------------------
(* Properties of the whole window *)

\* the effects of the call c that are named name
EffectsNamed(c, name) == SelectSeq(c.effects, LAMBDA e : e[1] = name)
HasEffect(c, name) == EffectsNamed(c, name) # << >>

\* the call c is a configure that its handler acknowledged
ConfigureHandled(c) ==
    \/ c.op = "handle_xdg_surface_event" /\ surface.kind = "Xdg"
    \/ c.op = "handle_layer_surface" /\ surface.kind = "Layer"

\* C3: window_bounds changes only in an xdg-surface configure that commits a
\* pending payload with neither fullscreen nor maximized set; an ack of a
\* fullscreen or maximized payload and every other operation leave it as it is.
C3_WindowBoundsFrame ==
    [][ window_bounds' # window_bounds =>
           /\ call'.op = "handle_xdg_surface_event" /\ surface.kind = "Xdg"
           /\ IsSome(in_progress_configure)
           /\ ~Unwrap(in_progress_configure).fullscreen
           /\ ~Unwrap(in_progress_configure).maximized ]_vars

\* a windowed payload was committed and overwrote window_bounds, after an
\* inset was set and the scale had changed
C3_Witness ==
    /\ AckCommitted
    /\ ~Payload.fullscreen /\ ~Payload.maximized
    /\ window_bounds # call.before.window_bounds
    /\ IsSome(inset) /\ scale # 120

\* C5: the configure handled while acknowledged_first_configure is false, and
\* no other step, requests a frame callback, once; that configure sets
\* acknowledged_first_configure, which never becomes false again.
C5_FirstConfigureRequestsFrame ==
    [][ /\ Len(EffectsNamed(call', "wl_surface.frame"))
              = (IF ConfigureHandled(call') /\ ~acknowledged_first_configure
                 THEN 1 ELSE 0)
        /\ ConfigureHandled(call') => acknowledged_first_configure'
        /\ acknowledged_first_configure => acknowledged_first_configure'
        /\ acknowledged_first_configure' # acknowledged_first_configure
              => ConfigureHandled(call') ]_vars

\* a configure handled after the first one: acknowledged, no frame requested
C5_Witness ==
    /\ ConfigureHandled(call)
    /\ call.before.acknowledged_first_configure
    /\ acknowledged_first_configure
    /\ HasEffect(call, "xdg_surface.ack_configure")
    /\ ~HasEffect(call, "wl_surface.frame")

----------------------------------------------------------------------------
(* Properties of close requests and teardown *)

CloseHandled == call.op = "handle_toplevel_event" /\ call.args[1] = "Close"

\* C6 as stated, for a window with a registered close callback: the callback
\* is run exactly when the predicate returns true, it is run as well when no
\* predicate is registered, and the handler returns true exactly when it ran.
C6_Original ==
    (CloseHandled /\ call.before.callbacks.close) =>
        /\ ~call.before.callbacks.should_close => HasEffect(call, "callback.close")
        /\ call.ret <=> HasEffect(call, "callback.close")

\* C6 amended: a registered predicate is invoked once, the handler returns its
\* result and runs the registered close callback exactly when the result is
\* true; without a predicate the handler returns true and invokes nothing
\* itself (the close callback stays registered for the caller's teardown); it
\* returns false exactly when a predicate returned false.
C6_CloseRequest ==
    CloseHandled =>
        LET registered == call.before.callbacks.should_close
            asked == EffectsNamed(call, "callback.should_close")
        IN /\ registered =>
                 /\ Len(asked) = 1 /\ call.effects[1] = asked[1]
                 /\ call.ret = asked[1][2]
                 /\ HasEffect(call, "callback.close")
                       <=> (call.ret /\ call.before.callbacks.close)
                 /\ callbacks.should_close
           /\ ~registered =>
                 /\ call.ret = TRUE
                 /\ call.effects = << >>
                 /\ callbacks = call.before.callbacks
           /\ Len(EffectsNamed(call, "callback.close")) <= 1
           /\ HasEffect(call, "callback.close") => ~callbacks.close
           /\ (call.ret = FALSE) <=> (registered /\ asked[1][2] = FALSE)

\* a close request without a predicate on a window with a close callback:
\* true is returned and the callback has not run
C6_Witness ==
    /\ CloseHandled
    /\ ~call.before.callbacks.should_close
    /\ call.before.callbacks.close
    /\ call.ret = TRUE
    /\ callbacks.close
    /\ phase = "live"

\* the place of a teardown step in the required order
TeardownRank(step) ==
    CASE step = "renderer.destroy" -> 1
      [] step \in {"blur.release", "viewport.destroy"} -> 2
      [] step = "wl_surface.destroy" -> 3
      [] step \in {"xdg_surface.destroy", "toplevel.destroy", "decoration.destroy",
                   "layer_surface.destroy"} -> 4
      [] step = "executor.spawn" -> 5
      [] step = "callback.close" -> 6
      [] step = "client.drop_window" -> 7

InTeardown(step) == \E i \in DOMAIN teardown : teardown[i] = step

\* C7: teardown destroys the renderer, then releases the blur object and
\* destroys the viewport if present, then destroys the wl_surface, then the
\* objects of the surface variant; the close callback and then the removal
\* from the client registry come afterwards, in the deferred task, when every
\* destroy request has been issued.
C7_TeardownOrder ==
    /\ \A i, j \in DOMAIN teardown :
          i < j => /\ TeardownRank(teardown[i]) <= TeardownRank(teardown[j])
                   /\ teardown[i] # teardown[j]
    /\ phase = "live" => teardown = << >>
    /\ phase \in {"dropped", "closed"} =>
          /\ InTeardown("renderer.destroy") /\ InTeardown("wl_surface.destroy")
          /\ InTeardown("blur.release") <=> blur
          /\ InTeardown("viewport.destroy") <=> viewport
          /\ InTeardown("xdg_surface.destroy") <=> surface.kind = "Xdg"
          /\ InTeardown("toplevel.destroy") <=> surface.kind = "Xdg"
          /\ InTeardown("decoration.destroy") <=> surface.decoration
          /\ InTeardown("layer_surface.destroy") <=> surface.kind = "Layer"
          /\ InTeardown("executor.spawn")
          /\ ~renderer.alive
    /\ phase = "dropped" =>
          /\ ~InTeardown("client.drop_window")
          /\ InTeardown("callback.close") => callbacks_borrowed
    /\ phase = "closed" =>
          /\ teardown[Len(teardown)] = "client.drop_window"
          /\ InTeardown("callback.close") <=> call.before.callbacks.close

\* a toplevel window with blur, viewport, decoration and a close callback was
\* torn down and its task has run
C7_Witness ==
    /\ phase = "closed"
    /\ InTeardown("blur.release") /\ InTeardown("viewport.destroy")
    /\ InTeardown("decoration.destroy") /\ InTeardown("callback.close")

----------------------------------------------------------------------------
(* Properties of outputs and scale *)

\* the largest scale among the outputs of a map that has one
MaxScaleOf(outs) ==
    CHOOSE m \in {outs[id] : id \in DOMAIN outs} :
        \A id \in DOMAIN outs : outs[id] <= m

ExpectedOutputScale(outs) == IF DOMAIN outs = {} THEN 1 ELSE MaxScaleOf(outs)

\* C8: primary_output_scale returns 1 when outputs is empty and the largest
\* scale among the tracked outputs otherwise, as returned to the caller and
\* as given to set_buffer_scale by Enter and Leave.
C8_PrimaryOutputScale ==
    /\ call.op = "primary_output_scale" => call.ret = ExpectedOutputScale(outputs)
    /\ (call.op = "handle_surface_event" /\ call.args[1] \in {"Enter", "Leave"}
          /\ call.effects # << >>)
          => call.effects[1] = <<"wl_surface.set_buffer_scale", ExpectedOutputScale(outputs)>>

\* the scale was asked for while the display chosen earlier is an output
\* that has left and the outputs that remain have a smaller scale
C8_Witness ==
    /\ call.op = "primary_output_scale"
    /\ outputs # << >> /\ DOMAIN outputs # {}
    /\ IsSome(display) /\ Unwrap(display).id \notin DOMAIN outputs
    /\ call.ret = 1 /\ Unwrap(display).scale > 1

\* C9 as stated: with a fractional scale manager, no Enter, Leave or
\* PreferredBufferScale sends set_buffer_scale or changes the scale.
C9_Original ==
    (globals.fractional_scale_manager /\ call.op = "handle_surface_event") =>
        /\ ~HasEffect(call, "wl_surface.set_buffer_scale")
        /\ scale = call.before.scale

\* C22 (as claimed): display, when set, is an entry of outputs (an output the
\* surface is on, with the scale the map holds for it) whose scale is the
\* largest of the outputs, and primary_output_scale returns the scale of that
\* entry.
C22_Original ==
    IsSome(display) =>
        LET d == Unwrap(display)
        IN /\ d.id \in DOMAIN outputs
           /\ outputs[d.id] = d.scale
           /\ d.scale = MaxScaleOf(outputs)
           /\ call.op = "primary_output_scale" => call.ret = d.scale

----------------------------------------------------------------------------
(* Properties of decorations and background appearance *)

RanUpdateWindow == HasEffect(call, "renderer.update_transparency")

\* C10: is_transparent is true iff the decorations are Client or the
\* background is not Opaque; every run of update_window gives that value to
\* the renderer and declares an opaque region exactly when the decorations
\* are Server and the background is Opaque, and a null region otherwise.
C10_TransparencyAndOpaqueRegion ==
    LET transparent == decorations = "Client" \/ background_appearance # "Opaque"
        declared == decorations = "Server" /\ background_appearance = "Opaque"
    IN /\ is_transparent(decorations, background_appearance) <=> transparent
       /\ RanUpdateWindow =>
             /\ EffectsNamed(call, "renderer.update_transparency")
                   = << <<"renderer.update_transparency", transparent>> >>
             /\ renderer.transparent = transparent
             /\ EffectsNamed(call, "wl_surface.set_opaque_region")
                   = << <<"wl_surface.set_opaque_region",
                          IF declared THEN "region" ELSE "null">> >>
             /\ opaque_region = (IF declared THEN "region" ELSE "null")

\* update_window ran for a window with server decorations and an opaque
\* background: the renderer is opaque and the region is declared
C10_Witness ==
    /\ RanUpdateWindow
    /\ decorations = "Server" /\ background_appearance = "Opaque"
    /\ ~renderer.transparent /\ opaque_region = "region"

\* the number of blur objects a state holds
BlurObjects(blur_) == IF blur_ THEN 1 ELSE 0

\* C11: with a blur manager, every step creates a blur object only when the
\* background it leaves is Blurred and none existed, and the objects created
\* and released account for the one the state holds (so at most one is live);
\* a run of update_window with a Blurred background commits the object once,
\* after creating it; a run with another background issues an unset and then
\* releases the object that existed; the state holds a blur object exactly
\* when the background is Blurred.
C11_BlurLifecycle ==
    [][ globals.blur_manager =>
          LET created == Len(EffectsNamed(call', "blur_manager.create"))
              released == Len(EffectsNamed(call', "blur.release"))
              committed == Len(EffectsNamed(call', "blur.commit"))
              unset == Len(EffectsNamed(call', "blur_manager.unset"))
              ran == HasEffect(call', "renderer.update_transparency")
              blurred == background_appearance' = "Blurred"
          IN /\ BlurObjects(blur') = BlurObjects(blur) + created - released
             /\ created = (IF ran /\ blurred /\ ~blur THEN 1 ELSE 0)
             /\ committed = (IF ran /\ blurred THEN 1 ELSE 0)
             /\ unset = (IF ran /\ ~blurred THEN 1 ELSE 0)
             /\ released = (IF ran /\ ~blurred /\ blur THEN 1 ELSE 0)
             /\ blur' <=> blurred
             /\ blur <=> background_appearance = "Blurred"
             /\ \A i, j \in DOMAIN call'.effects :
                   /\ (call'.effects[i][1] = "blur_manager.create"
                         /\ call'.effects[j][1] = "blur.commit") => i < j
                   /\ (call'.effects[i][1] = "blur_manager.unset"
                         /\ call'.effects[j][1] = "blur.release") => i < j ]_vars

\* the background was set back to Opaque while a blur object existed: the
\* unset and the release were issued and no object is left
C11_Witness ==
    /\ globals.blur_manager
    /\ call.op = "set_background_appearance" /\ call.args = <<"Opaque">>
    /\ HasEffect(call, "blur_manager.unset") /\ HasEffect(call, "blur.release")
    /\ ~blur

\* C24 (as claimed): after every change of decorations, background appearance
\* or inset update_window has run, so the transparency the renderer holds is
\* is_transparent() and an opaque region is declared on the surface exactly
\* when the decorations are Server and the background is Opaque.
C24_Original ==
    /\ renderer.transparent
          <=> (decorations = "Client" \/ background_appearance # "Opaque")
    /\ opaque_region = "region"
          <=> (decorations = "Server" /\ background_appearance = "Opaque")

----------------------------------------------------------------------------
(* Properties of the facade *)

\* the operations that need the toplevel of the surface
ToplevelOps ==
    {"set_title", "set_app_id", "minimize", "zoom", "toggle_fullscreen",
     "show_window_menu", "start_window_move", "start_window_resize"}

\* the last operation was invoked on a surface that does not support it
Unsupported ==
    \/ call.op \in ToplevelOps /\ surface.kind # "Xdg"
    \/ call.op = "request_decorations" /\ ~(surface.kind = "Xdg" /\ surface.decoration)

\* C12 as stated: an operation of the facade invoked on a surface that does
\* not support it sends no protocol request (it only logs), returns normally
\* and leaves the window state as it was.
C12_Original ==
    Unsupported =>
        /\ call.effects = << <<"log.error">> >>
        /\ phase = "live"
        /\ FacadeBefore = call.before

\* C14 as stated: set_hovered(h) latches h in the hover flag, and is_hovered()
\* called next returns h.
C14_Original ==
    [][ /\ call'.op = "set_hovered" => hovered' = call'.args[1]
        /\ (call.op = "set_hovered" /\ call'.op = "is_hovered")
              => call'.ret = call.args[1] ]_vars

----------------------------------------------------------------------------
(* Properties of window creation *)

\* the request that destroys the object a creation request made
DestroyRequestOf(request) ==
    CASE request = "compositor.create_surface" -> "wl_surface.destroy"
      [] request = "wm_base.get_xdg_surface" -> "xdg_surface.destroy"
      [] request = "xdg_surface.get_toplevel" -> "toplevel.destroy"
      [] request = "decoration_manager.get_toplevel_decoration" -> "decoration.destroy"
      [] request = "layer_shell.get_layer_surface" -> "layer_surface.destroy"
      [] request = "fractional_scale_manager.get_fractional_scale"
            -> "fractional_scale.destroy"
      [] request = "viewporter.get_viewport" -> "viewport.destroy"
      [] OTHER -> "none"

\* C13 as stated: when the renderer cannot be created, new returns an error,
\* no window exists, and every protocol object created before the failure
\* has been destroyed by a later request of new.
C13_Original ==
    (call.op = "new" /\ ~renderer.alive) =>
        /\ call.ret = "Err"
        /\ phase = "failed"
        /\ \A i \in DOMAIN call.effects :
              DestroyRequestOf(call.effects[i][1]) # "none" =>
                 \E j \in DOMAIN call.effects :
                    j > i /\ call.effects[j][1] = DestroyRequestOf(call.effects[i][1])

----------------------------------------------------------------------------
(* Properties of the geometry *)

\* the window geometry the last xdg-surface configure declared
DeclaredGeometry == EffectsNamed(call, "xdg_surface.set_window_geometry")

\* the number of the two edges given that are not tiled
Untiled(a, b) == (IF a THEN 0 ELSE 1) + (IF b THEN 0 ELSE 1)

\* C15: every xdg-surface configure on a toplevel window declares one window
\* geometry, whose width and height are the bounds size less the inset on
\* each edge that is not tiled when that is positive, and 1 otherwise; so
\* both are at least 1.
C15_GeometryAtLeastOne ==
    XdgAck =>
        LET i == IF IsSome(inset) THEN Unwrap(inset) ELSE 0
            w == bounds.size.width - i * Untiled(tiling.left, tiling.right)
            h == bounds.size.height - i * Untiled(tiling.top, tiling.bottom)
        IN /\ Len(DeclaredGeometry) = 1
           /\ DeclaredGeometry[1][4] >= 1 /\ DeclaredGeometry[1][5] >= 1
           /\ DeclaredGeometry[1][4] = (IF w <= 0 THEN 1 ELSE w)
           /\ DeclaredGeometry[1][5] = (IF h <= 0 THEN 1 ELSE h)

\* an ack declared width 1 for a computed width below zero and the computed
\* height, which was positive
C15_Witness ==
    /\ XdgAck /\ IsSome(inset)
    /\ bounds.size.width - Unwrap(inset) * Untiled(tiling.left, tiling.right) < 0
    /\ bounds.size.height - Unwrap(inset) * Untiled(tiling.top, tiling.bottom) > 1
    /\ DeclaredGeometry[1][4] = 1
    /\ DeclaredGeometry[1][5] > 1

\* C16: compute_outer_size(inset, size, tiling) returns size as it is when
\* there is no inset (no size when none was suggested); with an inset i it
\* returns no size when none was suggested, and otherwise the width plus i for
\* each of the left and right edges that is not tiled and the height plus i
\* for each of the top and bottom edges that is not tiled.
C16_ComputeOuterSize ==
    call.op = "compute_outer_size" =>
        LET inset_ == call.args[1]
            new_size == call.args[2]
            tiling_ == call.args[3]
        IN /\ inset_ = None => call.ret = new_size
           /\ (IsSome(inset_) /\ new_size = None) => call.ret = None
           /\ (IsSome(inset_) /\ IsSome(new_size)) =>
                 /\ IsSome(call.ret)
                 /\ Unwrap(call.ret).width
                       = Unwrap(new_size).width
                         + Unwrap(inset_) * Untiled(tiling_.left, tiling_.right)
                 /\ Unwrap(call.ret).height
                       = Unwrap(new_size).height
                         + Unwrap(inset_) * Untiled(tiling_.top, tiling_.bottom)

\* the outer size of a size with an inset, the left and bottom edges tiled:
\* one inset was added to the width and one to the height
C16_Witness ==
    /\ call.op = "compute_outer_size"
    /\ IsSome(call.args[1]) /\ Unwrap(call.args[1]) > 0 /\ IsSome(call.args[2])
    /\ call.args[3] = [top |-> FALSE, left |-> TRUE, right |-> FALSE, bottom |-> TRUE]
    /\ Unwrap(call.ret).width = Unwrap(call.args[2]).width + Unwrap(call.args[1])
    /\ Unwrap(call.ret).height = Unwrap(call.args[2]).height + Unwrap(call.args[1])

----------------------------------------------------------------------------
(* Properties of the registration of handlers *)

\* the slot of Callbacks an on_* operation writes
SlotOf(op) ==
    CASE op = "on_request_frame" -> "request_frame"
      [] op = "on_input" -> "input"
      [] op = "on_active_status_change" -> "active_status_change"
      [] op = "on_hover_status_change" -> "hover_status_change"
      [] op = "on_resize" -> "resize"
      [] op = "on_moved" -> "moved"
      [] op = "on_should_close" -> "should_close"
      [] op = "on_close" -> "close"
      [] op = "on_appearance_changed" -> "appearance_changed"
      [] OTHER -> "none"

\* C17 as stated: an on_* operation succeeds whenever it is called, also
\* while a callback of the window is running: it meets no borrow conflict
\* and leaves a handler registered in its slot.
C17_Original ==
    SlotOf(call.op) # "none" =>
        /\ phase # "panicked"
        /\ callbacks[SlotOf(call.op)]

----------------------------------------------------------------------------
(* Properties of the two phases of a configure *)

\* the step handles a toplevel configure
ToplevelConfigureStep ==
    call'.op = "handle_toplevel_event" /\ call'.args[1] = "Configure"

\* C18: a toplevel configure only stashes its payload (the suggested size,
\* none when width or height is zero, and the flags of its states): bounds,
\* window_bounds, scale, fullscreen, maximized, tiling and every other field
\* are unchanged, nothing is sent and no callback runs; fullscreen, maximized,
\* tiling, bounds and window_bounds change only when an xdg-surface configure
\* is handled.
C18_ToplevelConfigureOnlyStashes ==
    [][ /\ ToplevelConfigureStep =>
              /\ UNCHANGED << bounds, window_bounds, scale, fullscreen, maximized,
                              tiling, acknowledged_first_configure, window_controls,
                              in_progress_window_controls, decorations,
                              background_appearance, inset, renderer,
                              opaque_region, callbacks >>
              /\ call'.effects = << >>
              /\ call'.ret = FALSE
              /\ IsSome(in_progress_configure')
              /\ LET c == Unwrap(in_progress_configure')
                     width == call'.args[2]
                     height == call'.args[3]
                     states == call'.args[4]
                 IN /\ c.size = (IF width = 0 \/ height = 0 THEN None
                                 ELSE Some(Size(width, height)))
                    /\ c.fullscreen <=> StateFullscreen \in states
                    /\ c.maximized <=> StateMaximized \in states
        /\ << fullscreen, maximized, tiling, bounds, window_bounds >>'
              # << fullscreen, maximized, tiling, bounds, window_bounds >>
              => call'.op = "handle_xdg_surface_event" ]_vars

\* a configure that reports Maximized with a size was handled on a window
\* that is not maximized: the payload is pending and the window is as it was
C18_Witness ==
    /\ call.op = "handle_toplevel_event" /\ call.args[1] = "Configure"
    /\ StateMaximized \in call.args[4] /\ call.args[2] > 0 /\ call.args[3] > 0
    /\ ~maximized /\ tiling = TilingDefault
    /\ bounds.size # Size(call.args[2], call.args[3])
    /\ Unwrap(in_progress_configure).maximized
    /\ acknowledged_first_configure

\* the payload that the xdg-surface configure handled last found pending
FoundPending == call.before.in_progress_configure

\* the payload found is one that a toplevel configure stashed while another
\* payload was pending
ReplacedAnother ==
    /\ IsSome(FoundPending)
    /\ IsSome(Unwrap(FoundPending).size)
    /\ <<Unwrap(Unwrap(FoundPending).size).width,
         Unwrap(Unwrap(FoundPending).size).height>> \in LaterSizes

\* C19: a toplevel configure replaces the payload that is pending by its own,
\* so that after two or more of them the payload of the last one is pending;
\* the xdg-surface configure commits the payload it finds: fullscreen,
\* maximized and tiling are its flags, and bounds and window_bounds follow
\* from the state before the ack and that payload alone (its size, the saved
\* size on an un-maximize, the outer size when windowed).  The payloads that
\* were replaced have no effect.
C19_LastConfigureWins ==
    /\ [][ ToplevelConfigureStep =>
               in_progress_configure'
                  = Some(DecodeConfigure(call'.args[2], call'.args[3], call'.args[4]))
         ]_vars
    /\ [](XdgAck /\ IsSome(FoundPending) =>
            LET p == Unwrap(FoundPending)
                windowed == ~p.fullscreen /\ ~p.maximized
                committed == IF windowed
                             THEN IF call.before.maximized
                                  THEN Some(call.before.window_bounds.size)
                                  ELSE compute_outer_size(inset, p.size, p.tiling)
                             ELSE p.size
            IN /\ in_progress_configure = None
               /\ fullscreen = p.fullscreen /\ maximized = p.maximized
               /\ tiling = p.tiling
               /\ bounds.size = (IF IsSome(committed) THEN Unwrap(committed)
                                 ELSE call.before.bounds.size)
               /\ window_bounds.size = (IF windowed /\ IsSome(committed)
                                        THEN Unwrap(committed)
                                        ELSE call.before.window_bounds.size))

\* an ack found a windowed payload that had replaced another one, on a
\* window that was not maximized and has an inset: the window is windowed
\* with the outer size of that payload
C19_Witness ==
    /\ XdgAck /\ ReplacedAnother
    /\ ~Unwrap(FoundPending).maximized /\ ~Unwrap(FoundPending).fullscreen
    /\ ~call.before.maximized /\ ~call.before.fullscreen
    /\ ~maximized /\ ~fullscreen /\ tiling = TilingDefault
    /\ IsSome(inset) /\ Unwrap(inset) > 0
    /\ bounds.size = Unwrap(compute_outer_size(inset, Unwrap(FoundPending).size,
                                               TilingDefault))
    /\ bounds.size # call.before.bounds.size
    /\ bounds.size = window_bounds.size

\* the place of what an xdg-surface configure does in the order of its steps
AckRank(name) ==
    CASE name = "callback.appearance_changed" -> 1
      [] name = "renderer.update_drawable_size" -> 2
      [] name = "callback.resize" -> 3
      [] name = "viewport.set_destination" -> 4
      [] name = "xdg_surface.ack_configure" -> 5
      [] name = "xdg_surface.set_window_geometry" -> 6
      [] name = "wl_surface.frame" -> 7
      [] name = "callback.request_frame" -> 8
      [] OTHER -> 0

\* C20: an xdg-surface configure (1) commits the pending window controls and
\* runs the appearance-changed handler, (2) commits the pending payload and
\* applies a changed size through resize (renderer, resize handler, viewport),
\* (3) sends ack_configure once, with the serial of the event, (4) declares the
\* window geometry of the bounds as resize left them, and (5) on the first ack
\* only requests the frame and runs the request-frame handler, in this order
\* and each at most once.  What each step is given is stated for a configure
\* inside whose handlers nothing else was handled; the order, the single ack
\* and the frame of the first ack hold for every configure.
C20_AckOrder ==
    XdgAck =>
        LET e == call.effects
            resized == bounds.size # call.before.bounds.size
            i == IF IsSome(inset) THEN Unwrap(inset) ELSE 0
            w == bounds.size.width - i * Untiled(tiling.left, tiling.right)
            h == bounds.size.height - i * Untiled(tiling.top, tiling.bottom)
        IN /\ \A k, l \in DOMAIN e :
                 (k < l /\ AckRank(e[k][1]) > 0 /\ AckRank(e[l][1]) > 0)
                    => AckRank(e[k][1]) < AckRank(e[l][1])
           /\ HasEffect(call, "callback.appearance_changed")
                 <=> (IsSome(call.before.in_progress_window_controls)
                        /\ callbacks.appearance_changed)
           /\ IsSome(call.before.in_progress_window_controls)
                 => window_controls = Unwrap(call.before.in_progress_window_controls)
           /\ HasEffect(call, "renderer.update_drawable_size") <=> resized
           /\ EffectsNamed(call, "callback.resize")
                 = (IF resized /\ callbacks.resize
                    THEN << <<"callback.resize", bounds.size, scale>> >> ELSE << >>)
           /\ EffectsNamed(call, "viewport.set_destination")
                 = (IF resized /\ viewport
                    THEN << <<"viewport.set_destination", bounds.size.width,
                              bounds.size.height>> >>
                    ELSE << >>)
           /\ EffectsNamed(call, "xdg_surface.ack_configure")
                 = << <<"xdg_surface.ack_configure", call.args[1]>> >>
           /\ Len(EffectsNamed(call, "xdg_surface.set_window_geometry")) = 1
           /\ HasEffect(call, "wl_surface.frame")
                 <=> ~call.before.acknowledged_first_configure
           /\ HasEffect(call, "callback.request_frame")
                 <=> (~call.before.acknowledged_first_configure
                        /\ callbacks.request_frame)
           /\ Undisturbed(call) =>
                 /\ \A k \in DOMAIN e : AckRank(e[k][1]) > 0
                 /\ EffectsNamed(call, "xdg_surface.set_window_geometry")
                       = << <<"xdg_surface.set_window_geometry",
                              IF tiling.left THEN 0 ELSE i,
                              IF tiling.top THEN 0 ELSE i,
                              IF w <= 0 THEN 1 ELSE w, IF h <= 0 THEN 1 ELSE h>> >>

\* the first ack of a window with all three handlers and a viewport committed
\* pending controls and a payload that changed the size: all eight steps ran
C20_Witness ==
    /\ XdgAck
    /\ Len(call.effects) = 8
    /\ call.effects[1][1] = "callback.appearance_changed"
    /\ call.effects[3][1] = "callback.resize"
    /\ call.effects[5] = <<"xdg_surface.ack_configure", call.args[1]>>
    /\ call.effects[8][1] = "callback.request_frame"
    /\ IsSome(inset) /\ bounds.size # call.before.bounds.size

----------------------------------------------------------------------------
(* Properties of the window controls *)

\* the step handles a toplevel capability advertisement
WmCapabilitiesStep ==
    call'.op = "handle_toplevel_event" /\ call'.args[1] = "WmCapabilities"

\* the controls a capability advertisement decodes to: every control of the
\* default, and every control the advertisement names
AdvertisedControls(capabilities) ==
    [fullscreen |-> default_window_controls.fullscreen \/ "Fullscreen" \in capabilities,
     maximize |-> default_window_controls.maximize \/ "Maximize" \in capabilities,
     minimize |-> default_window_controls.minimize \/ "Minimize" \in capabilities,
     window_menu |-> default_window_controls.window_menu \/ "WindowMenu" \in capabilities]

\* C21: a toplevel capability advertisement leaves window_controls as it was,
\* runs no callback and sends nothing: the controls decoded from it are held
\* pending.  The xdg-surface configure handled next makes the pending controls
\* the window_controls, clears the pending value and runs the
\* appearance-changed handler (when one is registered) exactly once; an
\* xdg-surface configure with no pending advertisement leaves window_controls
\* unchanged and does not run the handler.
C21_ControlsCommittedOnAck ==
    [][ /\ WmCapabilitiesStep =>
              /\ window_controls' = window_controls
              /\ call'.effects = << >>
              /\ in_progress_window_controls' = Some(AdvertisedControls(call'.args[2]))
        /\ window_controls' # window_controls
              => /\ StepOf("handle_xdg_surface_event")
                 /\ window_controls' = Unwrap(in_progress_window_controls)
                 /\ in_progress_window_controls' = None
        /\ BeginsCallback("appearance_changed")
              => /\ IsSome(in_progress_window_controls)
                 /\ window_controls' = Unwrap(in_progress_window_controls)
                 /\ in_progress_window_controls' = None
        /\ (call'.op = "handle_xdg_surface_event" /\ surface.kind = "Xdg") =>
              LET found == call'.before.in_progress_window_controls
              IN /\ Undisturbed(call') => in_progress_window_controls' = None
                 /\ IF IsSome(found)
                    THEN /\ window_controls' = Unwrap(found)
                         /\ Len(EffectsNamed(call', "callback.appearance_changed"))
                               = (IF callbacks.appearance_changed THEN 1 ELSE 0)
                    ELSE /\ window_controls' = call'.before.window_controls
                         /\ ~HasEffect(call', "callback.appearance_changed") ]_vars

\* an xdg-surface configure found the controls of an advertisement pending
\* that differ from the window_controls and from the default: it ran the
\* appearance-changed handler, the advertised controls are the
\* window_controls now and nothing is pending
C21_Witness ==
    /\ XdgAck
    /\ IsSome(call.before.in_progress_window_controls)
    /\ window_controls = Unwrap(call.before.in_progress_window_controls)
    /\ window_controls # call.before.window_controls
    /\ window_controls # default_window_controls
    /\ window_controls.maximize /\ ~window_controls.fullscreen
    /\ in_progress_window_controls = None
    /\ call.effects[1] = <<"callback.appearance_changed">>

----------------------------------------------------------------------------
(* Properties of set_size_and_scale *)

SizeAndScaleSet == call.op = "set_size_and_scale"

\* C23: set_size_and_scale(size, scale) does nothing (bounds and scale keep
\* their values, nothing is called) when every value provided equals the
\* current bounds.size or scale; otherwise bounds.size and scale take the
\* values provided and keep their own where none is provided, the origin is
\* kept, the renderer is given the size in device pixels, then the resize
\* handler (when registered) runs once with the resulting size and scale, then
\* the viewport (when there is one) gets the resulting size as destination.
C23_SetSizeAndScale ==
    SizeAndScaleSet =>
        LET size == call.args[1]
            new_scale == call.args[2]
            old == call.before
            same == /\ IsSome(size) => Unwrap(size) = old.bounds.size
                    /\ IsSome(new_scale) => Unwrap(new_scale) = old.scale
        IN IF same
           THEN bounds = old.bounds /\ scale = old.scale /\ call.effects = << >>
           ELSE /\ bounds.origin = old.bounds.origin
                /\ bounds.size = (IF IsSome(size) THEN Unwrap(size) ELSE old.bounds.size)
                /\ scale = (IF IsSome(new_scale) THEN Unwrap(new_scale) ELSE old.scale)
                /\ call.effects =
                      << <<"renderer.update_drawable_size",
                           (bounds.size.width * scale + 119) \div 120,
                           (bounds.size.height * scale + 119) \div 120>> >>
                      \o (IF callbacks.resize
                          THEN << <<"callback.resize", bounds.size, scale>> >>
                          ELSE << >>)
                      \o (IF viewport
                          THEN << <<"viewport.set_destination", bounds.size.width,
                                    bounds.size.height>> >>
                          ELSE << >>)

\* a call with the current size and another scale changed the scale alone and
\* told the renderer, the resize handler and the viewport, in this order
C23_Witness ==
    /\ SizeAndScaleSet
    /\ IsSome(call.args[1]) /\ Unwrap(call.args[1]) = call.before.bounds.size
    /\ IsSome(call.args[2]) /\ scale # call.before.scale
    /\ bounds = call.before.bounds
    /\ Len(call.effects) = 3
    /\ call.effects[2] = <<"callback.resize", bounds.size, scale>>

----------------------------------------------------------------------------
(* Properties of input events and of the input handler *)

\* what an operation asked of an input handler
HandlerRequests(c) ==
    SelectSeq(c.effects, LAMBDA e : e[1] \notin {"callback.input"})

\* C25: handle_input runs the registered input callback first, with the
\* event.  When the callback stops the propagation the input handler gets
\* nothing.  Otherwise, and when no input callback is registered, a key-down
\* event with a key_char is given once to the attached input handler, as
\* replace_text_in_range(None, key_char), and an event of any other kind, or
\* without key_char, is not given to it.
C25_HandleInput ==
    (call.op = "handle_input" /\ Undisturbed(call)) =>
        LET event == call.args[1]
            propagate == call.args[2]
            attached == call.before.input_handler
            stopped == callbacks.input /\ ~propagate
            key == event.kind = "KeyDown" /\ event.key_char # None
        IN /\ callbacks.input =>
                 /\ call.effects # << >>
                 /\ call.effects[1] = <<"callback.input", event>>
           /\ Len(EffectsNamed(call, "callback.input"))
                 = (IF callbacks.input THEN 1 ELSE 0)
           /\ HandlerRequests(call)
                 = (IF ~stopped /\ key /\ attached # None
                    THEN << <<"input_handler.replace_text_in_range", attached[1],
                              None, event.key_char[1]>> >>
                    ELSE << >>)

\* the input callback let a key-down event with a key_char through and the
\* attached handler got the text
C25_Witness ==
    /\ call.op = "handle_input"
    /\ callbacks.input /\ call.args[2]
    /\ Len(call.effects) = 2
    /\ call.effects[2][1] = "input_handler.replace_text_in_range"
    /\ call.effects[2][2] = Unwrap(call.before.input_handler)

\* the operation of the step is one that uses the input handler
UsesInputHandler(c) ==
    \/ c.op \in {"handle_ime", "get_ime_area"}
    \/ c.op = "handle_input" /\ c.args[1].kind = "KeyDown"
          /\ c.args[1].key_char # None /\ ~(callbacks.input /\ ~c.args[2])

\* what the operation of the step itself asked of an input handler.  The call
\* of an operation that goes on when its callback has returned holds what
\* was asked inside the callback as well, which is left out here.
OwnRequests ==
    LET resumed == running # None /\ running' = None
        inside == IF resumed THEN Len(HandlerRequests(Unwrap(running).rec)) ELSE 0
    IN SubSeq(HandlerRequests(call'), inside + 1, Len(HandlerRequests(call')))

\* C26: handle_ime, get_ime_area and the key forwarding of handle_input take
\* the attached handler out of the state for the time its operation runs
\* (input_handler is None, so an IME operation that arrives meanwhile finds no
\* handler) and, when the operation returns, store the handler they took in
\* the state again; without an attached handler they ask nothing of any
\* handler and leave the state as it is.
C26_DetachAndRestore ==
    [][ /\ UsesInputHandler(call') =>
              IF input_handler # None
              THEN /\ input_handler' = None
                   /\ Len(detached') = Len(detached) + 1
                   /\ SubSeq(detached', 1, Len(detached)) = detached
                   /\ detached'[Len(detached')].handler = input_handler[1]
                   /\ detached'[Len(detached')].op = call'.op
                   /\ OwnRequests # << >>
                   /\ \A k \in DOMAIN OwnRequests :
                         OwnRequests[k][2] = input_handler[1]
              ELSE /\ OwnRequests = << >>
                   /\ input_handler' = None
                   /\ detached' = detached
        /\ call'.op \in {"handle_ime.next", "get_ime_area.next"} =>
              /\ detached # << >>
              /\ input_handler' = input_handler
              /\ Len(detached') = Len(detached)
              /\ detached'[Len(detached')].handler = detached[Len(detached)].handler
              /\ Len(call'.effects) = 1
              /\ call'.effects[1][2] = detached[Len(detached)].handler
        /\ call'.op \in {"handle_ime.return", "get_ime_area.return",
                         "handle_input.return"} =>
              /\ detached # << >>
              /\ input_handler' = Some(detached[Len(detached)].handler)
              /\ detached' = SubSeq(detached, 1, Len(detached) - 1) ]_vars

\* handle_ime returned while another handler had been attached during its
\* operation: the handler it took is attached again
C26_Witness ==
    /\ call.op = "handle_ime.return"
    /\ call.before.input_handler # None
    /\ input_handler = Some(call.before.detached)
    /\ call.before.input_handler # input_handler
    /\ detached = << >>

\* get_ime_area began inside a callback, asked the handler and returned
\* while the callback was still running: the handler is attached again
RestoredInsideCallback ==
    /\ call.op = "get_ime_area.return"
    /\ callbacks_borrowed
    /\ detached = << >>
    /\ input_handler = Some(call.before.detached)

\* an IME operation arrived while the handler was running an operation: it
\* found no handler and asked nothing
NestedImeDropped ==
    /\ call.op = "handle_ime"
    /\ detached # << >>
    /\ input_handler = None
    /\ call.effects = << >>

----------------------------------------------------------------------------
(* Properties of the layer-shell configure *)

\* C27: on a layer-shell configure (serial, width, height) the handler first
\* acknowledges the serial and then sets the size to exactly the width and
\* height of the event, whatever the inset is, each once; it stages no payload
\* and no window controls and leaves fullscreen, maximized and tiling alone.
C27_LayerConfigure ==
    [][ /\ (call'.op = "handle_layer_surface" /\ surface.kind = "Layer"
               /\ Undisturbed(call')) =>
            LET serial == call'.args[1]
                width == call'.args[2]
                height == call'.args[3]
            IN /\ Len(call'.effects) >= 2
               /\ call'.effects[1] = <<"layer_surface.ack_configure", serial>>
               /\ call'.effects[2] = <<"layer_surface.set_size", width, height>>
               /\ Len(EffectsNamed(call', "layer_surface.ack_configure")) = 1
               /\ Len(EffectsNamed(call', "layer_surface.set_size")) = 1
        /\ StepOf("handle_layer_surface") =>
               /\ Stepped.nested = 0 =>
                     /\ Len(Stepped.effects) >= 2
                     /\ Stepped.effects[1]
                           = <<"layer_surface.ack_configure", Stepped.args[1]>>
                     /\ Stepped.effects[2]
                           = <<"layer_surface.set_size", Stepped.args[2],
                                Stepped.args[3]>>
               /\ UNCHANGED << in_progress_configure, in_progress_window_controls,
                               fullscreen, maximized, tiling, inset >> ]_vars

\* a layer surface with a positive inset handled a configure that is not its
\* first: the serial was acknowledged and the size of the event was set
C27_Witness ==
    /\ call.op = "handle_layer_surface" /\ surface.kind = "Layer"
    /\ IsSome(inset) /\ Unwrap(inset) > 0
    /\ call.before.acknowledged_first_configure
    /\ call.args[2] > 0 /\ call.args[3] > 0
    /\ call.effects = << <<"layer_surface.ack_configure", call.args[1]>>,
                         <<"layer_surface.set_size", call.args[2], call.args[3]>> >>

----------------------------------------------------------------------------
(* Properties of the decoration-mode configure *)

\* C28: a decoration-mode configure with mode ServerSide sets decorations to
\* Server and one with mode ClientSide sets it to Client, and runs the
\* appearance-changed handler (when registered) exactly once; a configure
\* with any other mode changes no field of the state, runs no handler, and
\* the window goes on (the mode is only logged).
C28_DecorationConfigure ==
    [][ StepOf("handle_toplevel_decoration_event") =>
            LET mode == Stepped.args[1]
            IN IF mode \in {"ServerSide", "ClientSide"}
               THEN /\ Stepped.nested = 0 =>
                          decorations' = (IF mode = "ServerSide" THEN "Server"
                                          ELSE "Client")
                    /\ Len(EffectsNamed(Stepped, "callback.appearance_changed"))
                          = (IF callbacks.appearance_changed THEN 1 ELSE 0)
                    /\ Stepped.nested = 0 =>
                          Stepped.effects = (IF callbacks.appearance_changed
                                             THEN << <<"callback.appearance_changed">> >>
                                             ELSE << >>)
               ELSE /\ UNCHANGED << surface, globals, wl_surface_version,
                                    acknowledged_first_configure, bounds,
                                    window_bounds, scale, fullscreen, maximized,
                                    tiling, in_progress_configure,
                                    in_progress_window_controls, window_controls,
                                    decorations, background_appearance, inset,
                                    outputs, display, blur, viewport, renderer,
                                    opaque_region, callbacks, phase, teardown,
                                    active, hovered, app_id,
                                    input_handler, detached >>
                    /\ call'.effects = << <<"log.warn">> >>
                    /\ phase' = "live" ]_vars

\* the compositor chose server-side decorations for a window that had client
\* decorations and a registered handler: the handler ran once
C28_Witness ==
    /\ call.op = "handle_toplevel_decoration_event"
    /\ call.args[1] = "ServerSide"
    /\ decorations = "Server"
    /\ renderer.transparent
    /\ call.effects = << <<"callback.appearance_changed">> >>

\* a configure with an unknown mode was handled on a window with server
\* decorations and a registered handler
UnknownModeIgnored ==
    /\ call.op = "handle_toplevel_decoration_event"
    /\ call.args[1] = "Other"
    /\ decorations = "Server" /\ callbacks.appearance_changed
    /\ call.effects = << <<"log.warn">> >>

----------------------------------------------------------------------------
(* Properties of the latched flags *)

\* C30: fullscreen, maximized and tiling are all false on a new window and
\* change only when an xdg-surface configure commits a pending payload, to
\* the flags of that payload, so that they always are those of the payload
\* committed last; zoom sends set_maximized when maximized is false and
\* unset_maximized when it is true, toggle_fullscreen sends set_fullscreen
\* or unset_fullscreen by fullscreen in the same way, and both leave the
\* flags as they are.
C30_LatchedFlags ==
    /\ (~fullscreen /\ ~maximized /\ tiling = TilingDefault)
    /\ [][ /\ IF call'.op = "handle_xdg_surface_event" /\ surface.kind = "Xdg"
                 /\ in_progress_configure # None
              THEN /\ fullscreen' = in_progress_configure[1].fullscreen
                   /\ maximized' = in_progress_configure[1].maximized
                   /\ tiling' = in_progress_configure[1].tiling
              ELSE UNCHANGED << fullscreen, maximized, tiling >>
           /\ (call'.op = "zoom" /\ surface.kind = "Xdg") =>
                 call'.effects = << IF maximized THEN <<"toplevel.unset_maximized">>
                                    ELSE <<"toplevel.set_maximized">> >>
           /\ (call'.op = "toggle_fullscreen" /\ surface.kind = "Xdg") =>
                 call'.effects = << IF fullscreen THEN <<"toplevel.unset_fullscreen">>
                                    ELSE <<"toplevel.set_fullscreen">> >> ]_vars

\* zoom on a window whose last committed payload was maximized: it asked to
\* unset the maximized state and the flags are as the payload left them
C30_Witness ==
    /\ call.op = "zoom"
    /\ maximized /\ ~fullscreen /\ tiling = TilingTiled
    /\ in_progress_configure = None
    /\ call.effects = << <<"toplevel.unset_maximized">> >>

----------------------------------------------------------------------------
(* Properties of the borrows of the state *)

\* the steps that run a registered handler or an operation of the input
\* handler
Invocations ==
    {"callback.request_frame", "callback.input", "callback.active_status_change",
     "callback.hover_status_change", "callback.resize", "callback.should_close",
     "callback.close", "callback.appearance_changed",
     "input_handler.replace_text_in_range",
     "input_handler.replace_and_mark_text_in_range", "input_handler.unmark_text",
     "input_handler.marked_text_range", "input_handler.selected_text_range",
     "input_handler.bounds_for_range"}

\* the state is borrowed when step k of the steps t begins: the last borrow
\* before it has not ended
BorrowedAt(t, k) ==
    LET marks == {i \in 1 .. k - 1 : t[i][1] \in BorrowMarkers}
    IN /\ marks # {}
       /\ t[CHOOSE i \in marks : \A j \in marks : j <= i] # DropBorrow

\* C29: whenever an operation runs a registered handler (request_frame,
\* input, active or hover status change, resize, should_close, close,
\* appearance_changed) or an operation of the input handler, it holds no
\* borrow of the state, exclusive or shared: every borrow it took before has
\* ended.  The steps are those of the operation: without the borrows they are
\* its effects.
C29_NoBorrowAtCallbacks ==
    LET t == call.steps
    IN /\ (\E k \in DOMAIN call.effects : call.effects[k][1] \in Invocations)
             => Requests(t) = call.effects
       /\ \A k \in DOMAIN t : t[k][1] \in Invocations => ~BorrowedAt(t, k)

\* the first xdg-surface configure committed controls and a payload with a
\* new size: the appearance-changed, resize and request-frame handlers ran,
\* each after a borrow of the state that had ended
C29_Witness ==
    /\ call.op = "handle_xdg_surface_event"
    /\ Named(call.steps, "callback.appearance_changed") # << >>
    /\ Named(call.steps, "callback.resize") # << >>
    /\ Named(call.steps, "callback.request_frame") # << >>
    /\ Len(Named(call.steps, "state.borrow_mut")) = 6
    /\ Len(Named(call.steps, "state.borrow")) = 1
    /\ Len(Named(call.steps, "state.drop")) = 7

----------------------------------------------------------------------------
(* Properties of the pending values at the xdg-surface configure *)

\* the ack and the window geometry sent by the last operation
AckSent == EffectsNamed(call, "xdg_surface.ack_configure")
GeometryDeclared == EffectsNamed(call, "xdg_surface.set_window_geometry")

\* the step begins an xdg-surface configure: the handler was not waiting for
\* one of its callbacks to return
BeginsXdgConfigure ==
    /\ StepOf("handle_xdg_surface_event")
    /\ surface.kind = "Xdg"
    /\ running = None \/ (running' # None /\ call'.op = "handle_xdg_surface_event")

\* the step is the one in which an xdg-surface configure reaches
\* in_progress_configure.take(): its first step, unless that one stops at the
\* appearance-changed handler, and otherwise the step it takes when the
\* appearance-changed handler has returned
TakesPayload ==
    /\ StepOf("handle_xdg_surface_event")
    /\ surface.kind = "Xdg"
    /\ ~BeginsCallback("appearance_changed")
    /\ BeginsXdgConfigure \/ (running # None /\ Unwrap(running).next = "payload")

\* C31 (as claimed): after every xdg-surface configure handled on a toplevel
\* window no configure payload and no window controls are pending, and a
\* configure that found no payload left bounds, window_bounds, fullscreen,
\* maximized and tiling as they were, sent the ack and declared the geometry.
C31_Original ==
    XdgAck =>
        /\ in_progress_configure = None
        /\ in_progress_window_controls = None
        /\ call.before.in_progress_configure = None =>
              /\ bounds = call.before.bounds
              /\ window_bounds = call.before.window_bounds
              /\ fullscreen = call.before.fullscreen
              /\ maximized = call.before.maximized
              /\ tiling = call.before.tiling
              /\ Len(AckSent) >= 1
              /\ Len(GeometryDeclared) >= 1

\* C31 amended: the handler of an xdg-surface configure on a toplevel window
\* empties the pending window controls where it begins and the pending
\* payload where it takes it, and nothing but a toplevel event makes either
\* of them pending again.  So both are empty after the configure unless a
\* toplevel configure or a capability advertisement was handled inside one
\* of the handlers it ran, after the take: what that event stashed is
\* pending when the configure is over.  When the handler found no payload
\* pending, bounds, window_bounds, fullscreen, maximized and tiling are what
\* they were before it, and it sent the ack for its serial once and declared
\* the window geometry once all the same: the geometry of the unchanged
\* bounds under the inset, when no set_client_inset ran inside its handlers.
C31_PendingCleared ==
    /\ [][ /\ in_progress_window_controls' # in_progress_window_controls =>
                 IF IsSome(in_progress_window_controls')
                 THEN WmCapabilitiesStep
                 ELSE BeginsXdgConfigure \/ call'.op = "panic"
           /\ in_progress_configure' # in_progress_configure =>
                 IF IsSome(in_progress_configure')
                 THEN ToplevelConfigureStep
                 ELSE TakesPayload \/ call'.op = "panic"
           /\ BeginsXdgConfigure => in_progress_window_controls' = None
           /\ TakesPayload => in_progress_configure' = None ]_vars
    /\ [](XdgAck =>
            /\ (IsSome(in_progress_configure) \/ IsSome(in_progress_window_controls))
                  => ~Undisturbed(call)
            /\ call.before.in_progress_configure = None =>
                  /\ bounds = call.before.bounds
                  /\ window_bounds = call.before.window_bounds
                  /\ fullscreen = call.before.fullscreen
                  /\ maximized = call.before.maximized
                  /\ tiling = call.before.tiling
                  /\ AckSent = << <<"xdg_surface.ack_configure", call.args[1]>> >>
                  /\ Len(GeometryDeclared) = 1
                  /\ LET geometry == WindowGeometry(call.before.bounds, inset, tiling)
                     IN Undisturbed(call) =>
                           GeometryDeclared =
                              << <<"xdg_surface.set_window_geometry",
                                   geometry.origin.x, geometry.origin.y,
                                   geometry.size.width, geometry.size.height>> >>)

\* an xdg-surface configure committed a payload and ran the resize handler,
\* a toplevel configure was handled inside the handler, and its payload is
\* pending now that the xdg-surface configure is over and acknowledged
C31_Witness ==
    /\ XdgAck
    /\ IsSome(call.before.in_progress_configure)
    /\ HasEffect(call, "callback.resize")
    /\ ~Undisturbed(call)
    /\ IsSome(in_progress_configure)
    /\ in_progress_configure # call.before.in_progress_configure
    /\ in_progress_window_controls = None
    /\ Len(AckSent) = 1

\* an xdg-surface configure after the first one found controls pending and
\* no payload: it acked, declared the geometry and left a window that had
\* been resized and maximized before as it was
NoPayloadAcked ==
    /\ XdgAck
    /\ Undisturbed(call)
    /\ call.before.acknowledged_first_configure
    /\ call.before.in_progress_configure = None
    /\ IsSome(call.before.in_progress_window_controls)
    /\ in_progress_window_controls = None
    /\ maximized
    /\ bounds.size # InitialBounds.size
    /\ Len(AckSent) = 1 /\ Len(GeometryDeclared) = 1

----------------------------------------------------------------------------
(* Properties of bounds and window_bounds of a windowed toplevel *)

\* C32 (as claimed): after an xdg-surface configure that leaves the window
\* neither fullscreen nor maximized, the size of bounds is the size of
\* window_bounds, whatever configures came before, those that leave
\* fullscreen or maximized without a suggested size included.
C32_Original ==
    (XdgAck /\ ~fullscreen /\ ~maximized) => bounds.size = window_bounds.size

\* the configure that leaves fullscreen without a suggested size: the payload
\* has no size and the window was fullscreen and not maximized, so neither
\* the saved size nor an outer size is committed and bounds keeps the size of
\* the fullscreen window
LeftFullscreenUnsized ==
    /\ AckCommitted
    /\ call.before.fullscreen /\ ~call.before.maximized
    /\ ~Payload.fullscreen /\ ~Payload.maximized /\ Payload.size = None
    /\ bounds.size = call.before.bounds.size
    /\ bounds.size # window_bounds.size

----------------------------------------------------------------------------
(* The inset math in f32.  Pixels is an f32: the sizes of the state machine
   above are integers, which f32 holds exactly, but an inset need not be one.
   Here a non-negative f32 is the integer that counts its multiples of
   2^-27, and the sum and the difference round as f32 does. *)

F32One == 134217728              \* 1.0
F32Tenth == 13421773             \* 0.1f32 = 13421773 * 2^-27
F32ThreeTenths == 40265320       \* 0.3f32 = 10066330 * 2^-25
MaxPx == 2                       \* suggested widths 1..MaxPx

\* px(v as f32) of a whole number v
PxF32(v) == v * F32One

\* the exponent of x > 0: 2^e <= x < 2^(e+1)
F32Exponent(x) == CHOOSE e \in 0 .. 30 : 2^e <= x /\ (e = 30 \/ x < 2^(e + 1))

\* x > 0 rounded to 24 significant bits, to nearest, ties to even
RoundMagnitudeF32(x) ==
    LET e == F32Exponent(x)
        ulp == IF e <= 23 THEN 1 ELSE 2^(e - 23)
        q == x \div ulp
        r == x % ulp
    IN IF 2 * r < ulp \/ (2 * r = ulp /\ q % 2 = 0)
       THEN q * ulp ELSE (q + 1) * ulp

\* the f32 nearest to x: the sign is kept and the magnitude rounded
RoundF32(x) ==
    IF x = 0 THEN 0
    ELSE IF x > 0 THEN RoundMagnitudeF32(x)
    ELSE 0 - RoundMagnitudeF32(0 - x)

\* a + b and a - b of f32
AddF32(a, b) == RoundF32(a + b)
SubF32(a, b) == RoundF32(a - b)

\* v.0 as i32: the fraction is cut off, toward zero
AsI32(v) == IF v >= 0 THEN v \div F32One ELSE 0 - ((0 - v) \div F32One)

\* v.ceil() as i32
CeilI32(v) == 0 - ((0 - v) \div F32One)

\* Size::to_device_pixels for a scale that is a whole number (scale_ is in
\* 120ths): the product is an f32 and is rounded up
ToDevicePixelsF32(v, scale_) == CeilI32(RoundF32(v * (scale_ \div 120)))

\* compute_outer_size on f32: the inset is added on each edge in its turn,
\* top, bottom, left, right
compute_outer_size_f32(inset_, new_size, tiling_) ==
    IF inset_ = None THEN new_size
    ELSE IF new_size = None THEN None
    ELSE LET i == Unwrap(inset_)
             s == Unwrap(new_size)
             h1 == IF ~tiling_.top THEN AddF32(s.height, i) ELSE s.height
             h2 == IF ~tiling_.bottom THEN AddF32(h1, i) ELSE h1
             w1 == IF ~tiling_.left THEN AddF32(s.width, i) ELSE s.width
             w2 == IF ~tiling_.right THEN AddF32(w1, i) ELSE w1
         IN Some(Size(w2, h2))

\* inset_by_tiling on f32: the inset is taken off on each edge in its turn,
\* top, bottom, left, right; the size may become negative
inset_by_tiling_f32(bounds_, inset_, tiling_) ==
    LET y1 == IF ~tiling_.top THEN AddF32(bounds_.origin.y, inset_)
              ELSE bounds_.origin.y
        h1 == IF ~tiling_.top THEN SubF32(bounds_.size.height, inset_)
              ELSE bounds_.size.height
        h2 == IF ~tiling_.bottom THEN SubF32(h1, inset_) ELSE h1
        x1 == IF ~tiling_.left THEN AddF32(bounds_.origin.x, inset_)
              ELSE bounds_.origin.x
        w1 == IF ~tiling_.left THEN SubF32(bounds_.size.width, inset_)
              ELSE bounds_.size.width
        w2 == IF ~tiling_.right THEN SubF32(w1, inset_) ELSE w1
    IN Bounds(Point(x1, y1), Size(w2, h2))

\* the window geometry handle_xdg_surface_event declares: inset_by_tiling of
\* the bounds moved to the origin, every value cast to i32 and the size
\* clamped
WindowGeometryF32(bounds_, inset_, tiling_) ==
    LET g == inset_by_tiling_f32(Bounds(Point(0, 0), bounds_.size),
                                 IF IsSome(inset_) THEN Unwrap(inset_) ELSE 0,
                                 tiling_)
    IN Bounds(Point(AsI32(g.origin.x), AsI32(g.origin.y)),
              Size(ClampSize(AsI32(g.size.width)), ClampSize(AsI32(g.size.height))))

\* set_size_and_scale on f32: the renderer gets the size in device pixels,
\* the resize handler the size and the scale, the viewport the size cast to
\* i32
set_size_and_scale_f32(size, new_scale) ==
    IF SizeAndScaleUnchanged(size, new_scale)
    THEN [bounds |-> bounds, scale |-> scale, effects |-> << >>]
    ELSE LET b == IF IsSome(size) THEN [bounds EXCEPT !.size = Unwrap(size)]
                  ELSE bounds
             s == IF IsSome(new_scale) THEN Unwrap(new_scale) ELSE scale
         IN [bounds |-> b, scale |-> s,
             effects |->
                << <<"renderer.update_drawable_size",
                     ToDevicePixelsF32(b.size.width, s),
                     ToDevicePixelsF32(b.size.height, s)>> >>
                \o (IF callbacks.resize
                    THEN << <<"callback.resize", b.size, s>> >> ELSE << >>)
                \o (IF viewport
                    THEN << <<"viewport.set_destination",
                              AsI32(b.size.width), AsI32(b.size.height)>> >>
                    ELSE << >>)]

resize_f32(size) == set_size_and_scale_f32(Some(size), None)

\* configure.size once the payload c is committed
CommittedSizeF32(c) ==
    IF ~c.fullscreen /\ ~c.maximized
    THEN IF got_unmaximized(c)
         THEN Some(window_bounds.size)
         ELSE compute_outer_size_f32(inset, c.size, c.tiling)
    ELSE c.size

\* window_bounds once the payload c is committed
CommittedWindowBoundsF32(c) ==
    IF ~c.fullscreen /\ ~c.maximized /\ IsSome(CommittedSizeF32(c))
    THEN Bounds(Point(0, 0), Unwrap(CommittedSizeF32(c)))
    ELSE window_bounds

\* the InProgressConfigure a toplevel configure stashes: the size is
\* size(px(width as f32), px(height as f32))
DecodeConfigureF32(width, height, states) ==
    [DecodeConfigure(width, height, states) EXCEPT
        !.size = IF @ = None THEN None
                 ELSE Some(Size(PxF32(width), PxF32(height)))]

ToplevelConfigureF32(width, height, states) ==
    /\ Alive
    /\ in_progress_configure' =
          Stash(in_progress_configure, DecodeConfigureF32(width, height, states))
    /\ Finish(Call("handle_toplevel_event", <<"Configure", width, height, states>>,
                     Unit, << >>, FALSE))
    /\ UNCHANGED << configVars, facadeVars, acknowledged_first_configure, geometryVars,
                    latchedVars, in_progress_window_controls, window_controls,
                    appearanceVars, inset, outputVars, viewport, callbacks,
                    lifeVars >>

\* the handler of the xdg-surface configure on Pixels that are f32
XdgConfigureFromF32(from, c, serial, pending) ==
    XdgConfigureIn(from, c, serial, pending, CommittedSizeF32, resize_f32,
                   WindowGeometryF32, CommittedWindowBoundsF32)

XdgSurfaceConfigureF32(serial) ==
    XdgSurfaceConfigureIn("handle_xdg_surface_event", <<serial>>, serial,
                          in_progress_configure, XdgConfigureFromF32)

CallbackReturnF32 == CallbackReturnIn(XdgConfigureFromF32)

\* the insets the application sets, and the states of the configures
\* (width, height) of the configures: k x (k + 1)
InsetsF32 == {F32One, F32Tenth, F32ThreeTenths}
RoundTripSizes == {<<k, k + 1>> : k \in 1 .. MaxPx}
RoundTripStates == { {}, {StateTiledTop, StateTiledBottom}, {StateMaximized} }

\* a toplevel window with a viewport whose bounds are f32
InitRoundTrip ==
    InitState(WindowParams("Normal", None,
                           Bounds(Point(PxF32(2), PxF32(1)), Size(PxF32(6), PxF32(5))),
                           None),
              TRUE, FALSE, TRUE, FALSE, EVT_PREFERRED_BUFFER_SCALE_SINCE)

NextRoundTrip ==
    \/ OnResize
    \/ \E new_inset \in InsetsF32 : SetClientInset(new_inset)
    \/ Idle /\ \E wh \in RoundTripSizes, states \in RoundTripStates :
                  ToplevelConfigureF32(wh[1], wh[2], states)
    \/ Idle /\ \E serial \in Serials : XdgSurfaceConfigureF32(serial)
    \/ CallbackReturnF32

SpecRoundTrip == InitRoundTrip /\ [][NextRoundTrip]_vars

\* the last operation was an xdg-surface configure that committed a payload,
\* neither fullscreen nor maximized and not an un-maximize, with a suggested
\* size, and nothing else was handled inside its handlers
WindowedAck ==
    /\ AckCommitted
    /\ Undisturbed(call)
    /\ ~Payload.fullscreen /\ ~Payload.maximized
    /\ ~call.before.maximized
    /\ IsSome(Payload.size)

\* the size suggested by the payload and the size of the geometry declared,
\* in whole pixels
SuggestedI32 ==
    <<AsI32(Unwrap(Payload.size).width), AsI32(Unwrap(Payload.size).height)>>
DeclaredI32 == <<GeometryDeclared[1][4], GeometryDeclared[1][5]>>

\* C33 (as claimed): the window geometry declared by the ack that commits a
\* payload, neither fullscreen nor maximized and not an un-maximize, with a
\* suggested size of positive width and height has that size, for every
\* inset, absent or not negative, and every tiling.
C33_Original ==
    WindowedAck => (Len(GeometryDeclared) = 1 /\ DeclaredI32 = SuggestedI32)

\* the round trip holds when the inset is absent or a whole number
RoundTripOfIntegerInsets ==
    (WindowedAck /\ inset \in {None, Some(F32One)}) =>
        (Len(GeometryDeclared) = 1 /\ DeclaredI32 = SuggestedI32)

\* an inset of 0.1 on both sides of a suggested height of 2: 2.2 - 0.1 - 0.1
\* rounds to a value below 2 and 1 is declared
RoundTripLosesOne ==
    /\ WindowedAck
    /\ inset = Some(F32Tenth)
    /\ SuggestedI32[2] = 2
    /\ ~tiling.top /\ ~tiling.bottom
    /\ DeclaredI32[2] = 1

\* the inset is read twice, before resize and after it: an inset set inside
\* the resize handler is taken off a size it was not added to
InsetSetInsideResize ==
    /\ AckCommitted
    /\ ~Undisturbed(call)
    /\ HasEffect(call, "callback.resize")
    /\ inset = Some(F32One)
    /\ ~Payload.fullscreen /\ ~Payload.maximized /\ ~call.before.maximized
    /\ IsSome(Payload.size)
    /\ Len(GeometryDeclared) = 1
    /\ DeclaredI32 # SuggestedI32

----------------------------------------------------------------------------
(* Properties of the events handled after drop *)

\* the step of teardown that destroys the object a request is sent on, or
\* the renderer a call uses
DestroyedBy(request) ==
    CASE request \in {"renderer.update_drawable_size", "renderer.update_transparency"}
            -> "renderer.destroy"
      [] request = "viewport.set_destination" -> "viewport.destroy"
      [] request = "blur.commit" -> "blur.release"
      [] request \in {"wl_surface.frame", "wl_surface.set_buffer_scale",
                      "wl_surface.set_opaque_region", "wl_surface.commit"}
            -> "wl_surface.destroy"
      [] request \in {"xdg_surface.ack_configure", "xdg_surface.set_window_geometry"}
            -> "xdg_surface.destroy"
      [] request \in {"layer_surface.ack_configure", "layer_surface.set_size"}
            -> "layer_surface.destroy"
      [] OTHER -> "none"

\* the effects of the call c on objects that teardown has destroyed
OnDestroyed(c) == SelectSeq(c.effects, LAMBDA e : InTeardown(DestroyedBy(e[1])))

\* C34 (as claimed): while the window has been dropped and the task has not
\* yet removed it from the registry, no event that is handled sends a request
\* on a protocol object that drop destroyed or uses the destroyed renderer.
C34_Original ==
    phase = "dropped" => OnDestroyed(call) = << >>

\* a preferred scale arrives after drop: the destroyed renderer is given a
\* new drawable size and the destroyed viewport a destination
RescaleAfterDrop ==
    /\ phase = "dropped"
    /\ call.op = "handle_fractional_scale_event"
    /\ ~renderer.alive
    /\ Len(OnDestroyed(call)) = 2

\* a frame callback is done after drop: frame is requested of the destroyed
\* wl_surface
FrameAfterDrop ==
    /\ phase = "dropped"
    /\ call.op = "frame"
    /\ OnDestroyed(call) = << <<"wl_surface.frame">> >>

\* on a live window no effect is on a destroyed object
NothingDestroyedWhileLive ==
    phase = "live" => OnDestroyed(call) = << >>

----------------------------------------------------------------------------
(* Properties of the state a layer-shell configure leaves alone *)

\* C35: a layer-shell configure handled on a layer surface changes nothing
\* of the state but acknowledged_first_configure, which it leaves true:
\* bounds, window_bounds and scale stay whatever the width and the height of
\* the event are, the renderer gets no new drawable size, the viewport no
\* destination and the resize handler is not run.
C35_LayerConfigureFrame ==
    [][ /\ (StepOf("handle_layer_surface") /\ surface.kind = "Layer") =>
            /\ UNCHANGED << bounds, window_bounds, scale >>
            /\ UNCHANGED << configVars, facadeVars, latchedVars, pendingVars,
                            window_controls, appearanceVars, inset, outputVars,
                            viewport, callbacks, lifeVars >>
            /\ acknowledged_first_configure'
        /\ (call'.op = "handle_layer_surface" /\ surface.kind = "Layer"
               /\ Undisturbed(call')) =>
            /\ ~HasEffect(call', "renderer.update_drawable_size")
            /\ ~HasEffect(call', "viewport.set_destination")
            /\ ~HasEffect(call', "callback.resize") ]_vars

\* a layer surface with a viewport handled a configure whose width and
\* height are positive and differ from the size of the window: the size was
\* set on the layer surface and bounds kept the initial size
C35_Witness ==
    /\ call.op = "handle_layer_surface" /\ surface.kind = "Layer"
    /\ viewport
    /\ call.args[2] > 0 /\ call.args[3] > 0
    /\ Size(call.args[2], call.args[3]) # bounds.size
    /\ HasEffect(call, "layer_surface.set_size")
    /\ bounds = InitialBounds /\ window_bounds = InitialBounds
    /\ acknowledged_first_configure

----------------------------------------------------------------------------
(* Properties of the close callback over the life of the window *)

\* C36 (as claimed): the close callback runs at the first close-request that
\* is accepted, and the run takes it out of the callbacks, so that nothing
\* runs it again.
C36_Original ==
    /\ (CloseHandled /\ call.ret = TRUE /\ call.before.callbacks.close)
          => HasEffect(call, "callback.close")
    /\ HasEffect(call, "callback.close") => ~callbacks.close

\* C36 amended: no operation runs the close callback more than once, and the
\* run takes the callback out of the callbacks: later close-requests, later
\* calls of close() and the task of teardown find none, until on_close
\* registers one again.  A registered callback runs in exactly three places:
\* in the close-request that a registered should-close predicate accepts, in
\* a call of close(), and in the task of teardown; each of them runs it
\* exactly when one is registered.  A close-request accepted for want of a
\* predicate does not run it.
C36_CloseRunsOnce ==
    [][ LET ran == BeginsCallback("close")
            accepted == /\ Waiting.op = "handle_toplevel_event"
                        /\ Waiting.args[1] = "Close"
                        /\ Waiting.before.callbacks.should_close
                        /\ Waiting.ret = TRUE
            called == Waiting.op = "close"
            task == Waiting.op = "drop.task" /\ phase = "dropped"
        IN /\ Len(EffectsNamed(call', "callback.close")) <= 1
           /\ ran <=> (callbacks.close /\ ~callbacks'.close)
           /\ ran => (accepted \/ called \/ task)
           /\ ran => Len(EffectsNamed(Waiting, "callback.close")) = 1
           /\ (call'.op = "handle_toplevel_event" /\ call'.args[1] = "Close")
                 => (HasEffect(call', "callback.close")
                        <=> /\ call'.before.callbacks.should_close
                            /\ call'.ret = TRUE
                            /\ call'.before.callbacks.close)
           /\ call'.op \in {"drop.task", "close"}
                 => (HasEffect(call', "callback.close")
                        <=> call'.before.callbacks.close)
           /\ (HasEffect(call', "callback.close") \/ phase' = "closed")
                 => ~callbacks'.close
           /\ (~callbacks.close /\ callbacks'.close) => call'.op = "on_close" ]_vars

\* close() was called after a close-request accepted for want of a predicate
\* had left the callback registered: the call ran it and took it
CloseCallRanCallback ==
    /\ call.op = "close"
    /\ call.before.callbacks.close
    /\ HasEffect(call, "callback.close")
    /\ ~callbacks.close
    /\ phase = "live"

\* the task of teardown found no close callback, on a window with a
\* predicate, and removed the window without running one
TaskFoundNoCallback ==
    /\ call.op = "drop.task"
    /\ phase = "closed"
    /\ call.before.callbacks.should_close
    /\ ~call.before.callbacks.close
    /\ call.effects = << >>
    /\ ~InTeardown("callback.close")

\* a close-request accepted by the predicate ran the callback and took it
C36_Witness ==
    /\ CloseHandled
    /\ call.before.callbacks.should_close /\ call.ret = TRUE
    /\ call.before.callbacks.close
    /\ HasEffect(call, "callback.close")
    /\ ~callbacks.close

============================================================================
